---- MODULE Spec2Model ----
(***************************************************************************)
(* Bufferless 2-D mesh interconnect of uPIMulator: Router and MeshNetwork  *)
(* (simulator/interconnect/mesh_network.go, which also holds router.go).   *)
(*                                                                         *)
(* A Packet object lives in the heap `packets`; a port holds a reference   *)
(* to it.  An accepted packet's heap cell is indexed by the packet id the  *)
(* mesh gave it, so the activePackets map (id -> *Packet) is the set of    *)
(* its keys.  The payload bytes are never read by Router or MeshNetwork    *)
(* and are left out of the Packet record.                                  *)
(***************************************************************************)
EXTENDS Integers, Sequences, FiniteSets, TLC

\* ------------------------------------------------------------------ bounds
MaxPackets == 2     \* packets a run may inject (accepted injections)
MaxCycles  == 3     \* network cycles a run may take
MaxRun     == 2     \* largest maxCycles handed to RunUntilEmpty
LivePackets == 3    \* packets a run that cycles for ever may inject
LiveCycles == 2     \* the cycle counters of such a run count modulo LiveCycles
MaxSingleCycles == 7  \* network cycles of a single-packet run
MaxRouterCycles == 1  \* Router.Cycle calls on the router on its own
MaxReceives == 2    \* packets handed to the router on its own
RunPackets == 3     \* packets of a run on the narrow mesh that ends in RunUntilEmpty
RunCycles == 3      \* network cycles of such a run
MaxSwitches == 3    \* successful Connect calls on a crossbar
MaxBlocked == 2     \* blocked Connect calls on a crossbar
MaxCrossbarCycles == 1  \* Cycle calls on a crossbar
MaxTransfers == 2   \* transfers an inter-chip switch may start
MaxSwitchBlocked == 1   \* blocked StartTransfer calls on an inter-chip switch
MaxSwitchCycles == 1    \* Cycle calls on an inter-chip switch
MaxPins == 12       \* the largest totalPins handed to DQPinPartition.Init
MaxChannels == 4    \* the largest numChannels handed to DQPinPartition.Init
MaxNodes == 4       \* the largest number of nodes of a broadcast topology
MaxInjected == 2    \* packets injected before the last broadcast call of a run
MaxRing == 3        \* the largest ring whose values are drawn freely from ValueSet
MaxScatter == 2     \* the largest reduce-scatter whose chunks are drawn freely from ChunkValues
MaxCoarseTransfers == 2  \* transfers the coarse Interconnect may count
MaxPending == 1     \* requests waiting in the queues of an Interconnect that never cycles
MaxQueued == 2      \* requests waiting in the queues of an Interconnect that cycles
MaxCoarseCycles == 2     \* Cycle calls on the coarse Interconnect
MaxWriters == 2     \* contexts that call Interconnect.Write concurrently
MaxContexts == 2    \* contexts that call methods of one CrossbarSwitch concurrently
MaxSide == 3        \* routers along a side of the mesh a single packet is followed through
\* where the router on its own sits (router_test.go, TestBackpressure: Init(1, 1, ...))
RouterAtX == 1
RouterAtY == 1

\* the meshes a run starts from: <<width, height, packets fewer than MaxPackets>>.
\* The 2x1 mesh takes MaxPackets packets, the 2x2 mesh one fewer.
MeshSizes == {<<2, 1, 0>>, <<2, 2, 1>>}
\* the shape of the single-packet runs (mesh_network_test.go uses 4x4)
SingleMeshSizes == {<<4, 4, 0>>}
\* the shape of the runs that cycle for ever
LiveMeshSizes == {<<2, 1, 0>>}
\* the crossbars: <<numInputs, numOutputs>> (inter_chip_switch_test.go uses 4x4)
CrossbarSizes == {<<4, 4>>, <<2, 3>>}
\* the inter-chip switches: <<numChips, totalDQPins, numChannels>>
SwitchConfigs == {<<2, 2, 1>>, <<2, 4, 2>>}
\* the lengths of the data handed to StartTransfer
DataLens == {2}
\* the values the nodes of a small ring start with
ValueSet == {-1, 0, 2, 3}
\* the value vectors of collective_test.go (TestRingAllReduceSmall, MAX, MIN, 8Nodes)
TestVectors == {<<10, 20, 30, 40>>, <<15, 42, 8, 23>>, <<0, 10, 20, 30, 40, 50, 60, 70>>}
\* the ring sizes: the small ones, and 4, 8 and 32 of collective_test.go
RingSizes == (1 .. MaxRing) \cup {4, 8, 32}
\* the values of the chunks of a small reduce-scatter
ChunkValues == {-1, 2, 3}
\* the chunks of collective_test.go (TestReduceScatterSmall, MAX and MIN)
TestChunks == {<< <<10, 20, 30, 40>>, <<1, 2, 3, 4>>, <<5, 6, 7, 8>>, <<9, 10, 11, 12>> >>,
               << <<10, 50, 30, 70>>, <<25, 15, 80, 40>>, <<5, 60, 20, 90>>,
                  <<40, 20, 100, 30>> >>}
\* the coarse interconnects: <<numChannels, numRanks, numDPUs, bandwidth>>
\* (interconnect_test.go uses <<2, 2, 8, 1024>>)
CoarseConfigs == {<<2, 1, 1, 1024>>}
\* the byte arrays the caller of the Interconnect starts with, and the bytes it
\* writes into them
CallerPayloads == << <<1, 1>> >>
ByteValues == {1, 2}
\* the sizes of the reduce-scatter topologies
ScatterSizes == (1 .. MaxScatter) \cup {4}

\* ------------------------------------------------------------ value types
NORTH == 0
SOUTH == 1
EAST  == 2
WEST  == 3
LOCAL_DIR == 4
Dir == {NORTH, SOUTH, EAST, WEST, LOCAL_DIR}

XY_ROUTING == 0
YX_ROUTING == 1
WEST_FIRST == 2
RoutingAlgorithm == {XY_ROUTING, YX_ROUTING, WEST_FIRST}

\* the nil *Packet
NilPacket == -1

\* a RouterPort with Occupied = false and Packet = nil
EmptyPort == [Occupied |-> FALSE, Packet |-> NilPacket]

NewPacket(srcCh, srcRank, srcDpu, dstCh, dstRank, dstDpu) ==
    [SrcChannelID |-> srcCh, SrcRankID |-> srcRank, SrcDpuID |-> srcDpu,
     DstChannelID |-> dstCh, DstRankID |-> dstRank, DstDpuID |-> dstDpu,
     HopCount |-> 0, CurrentX |-> 0, CurrentY |-> 0, Timestamp |-> 0]

\* ------------------------------------------------------------------ Router
RouterInit(posX, posY, algorithm) ==
    [PositionX |-> posX, PositionY |-> posY, routingAlgorithm |-> algorithm,
     InputPorts  |-> [d \in Dir |-> EmptyPort],
     OutputPorts |-> [d \in Dir |-> EmptyPort],
     packetsRouted |-> 0, packetsBlocked |-> 0, totalHops |-> 0, cycles |-> 0]

\* a plausible slip: the deltas taken from the packet's source, not its destination
ComputeNextHopFromSrc(r, packet) ==
    LET deltaX == packet.SrcChannelID - r.PositionX
        deltaY == packet.SrcDpuID - r.PositionY
    IN  IF deltaX = 0 /\ deltaY = 0 THEN LOCAL_DIR
        ELSE IF deltaX > 0 THEN EAST
        ELSE IF deltaX < 0 THEN WEST
        ELSE IF deltaY > 0 THEN NORTH
        ELSE SOUTH

\* a plausible slip: WEST_FIRST written as XY
ComputeNextHopAllXY(r, packet) ==
    LET deltaX == packet.DstChannelID - r.PositionX
        deltaY == packet.DstDpuID - r.PositionY
    IN  IF deltaX = 0 /\ deltaY = 0 THEN LOCAL_DIR
        ELSE IF deltaX > 0 THEN EAST
        ELSE IF deltaX < 0 THEN WEST
        ELSE IF deltaY > 0 THEN NORTH
        ELSE SOUTH

\* a plausible slip: WEST_FIRST takes its vertical hops before the WEST ones
ComputeNextHopWestLast(r, packet) ==
    LET deltaX == packet.DstChannelID - r.PositionX
        deltaY == packet.DstDpuID - r.PositionY
    IN  IF deltaX = 0 /\ deltaY = 0 THEN LOCAL_DIR
        ELSE CASE r.routingAlgorithm = XY_ROUTING ->
                    IF deltaX > 0 THEN EAST
                    ELSE IF deltaX < 0 THEN WEST
                    ELSE IF deltaY > 0 THEN NORTH
                    ELSE SOUTH
               [] r.routingAlgorithm = YX_ROUTING ->
                    IF deltaY > 0 THEN NORTH
                    ELSE IF deltaY < 0 THEN SOUTH
                    ELSE IF deltaX > 0 THEN EAST
                    ELSE WEST
               [] OTHER ->
                    IF deltaY > 0 THEN NORTH
                    ELSE IF deltaY < 0 THEN SOUTH
                    ELSE IF deltaX < 0 THEN WEST
                    ELSE EAST

ComputeNextHop(r, packet) ==
    LET deltaX == packet.DstChannelID - r.PositionX
        deltaY == packet.DstDpuID - r.PositionY
    IN  IF deltaX = 0 /\ deltaY = 0 THEN LOCAL_DIR
        ELSE CASE r.routingAlgorithm = XY_ROUTING ->
                    IF deltaX > 0 THEN EAST
                    ELSE IF deltaX < 0 THEN WEST
                    ELSE IF deltaY > 0 THEN NORTH
                    ELSE IF deltaY < 0 THEN SOUTH
                    ELSE LOCAL_DIR
               [] r.routingAlgorithm = YX_ROUTING ->
                    IF deltaY > 0 THEN NORTH
                    ELSE IF deltaY < 0 THEN SOUTH
                    ELSE IF deltaX > 0 THEN EAST
                    ELSE IF deltaX < 0 THEN WEST
                    ELSE LOCAL_DIR
               [] r.routingAlgorithm = WEST_FIRST ->
                    IF deltaX < 0 THEN WEST
                    ELSE IF deltaY > 0 THEN NORTH
                    ELSE IF deltaY < 0 THEN SOUTH
                    ELSE IF deltaX > 0 THEN EAST
                    ELSE LOCAL_DIR
               [] OTHER -> LOCAL_DIR

\* a plausible slip: the busy check on the output port is missing
TryRoutePacketNoCheck(r, pk, p) ==
    LET nextDir == ComputeNextHop(r, pk[p])
        hops == pk[p].HopCount + 1
    IN  [success |-> TRUE,
         r  |-> [r EXCEPT !.OutputPorts[nextDir] = [Occupied |-> TRUE, Packet |-> p],
                          !.packetsRouted = @ + 1,
                          !.totalHops = @ + hops],
         pk |-> [pk EXCEPT ![p].HopCount = hops]]

\* a plausible slip: the hop is not counted on the packet
TryRoutePacketNoCount(r, pk, p) ==
    LET nextDir == ComputeNextHop(r, pk[p])
        hops == pk[p].HopCount + 1
    IN  IF r.OutputPorts[nextDir].Occupied
        THEN [success |-> FALSE,
              r  |-> [r EXCEPT !.packetsBlocked = @ + 1],
              pk |-> pk]
        ELSE [success |-> TRUE,
              r  |-> [r EXCEPT !.OutputPorts[nextDir] = [Occupied |-> TRUE, Packet |-> p],
                               !.packetsRouted = @ + 1,
                               !.totalHops = @ + hops],
              pk |-> pk]

\* TryRoutePacket(packet, fromDir) on router r with heap pk; p is the packet's
\* reference.  The result carries the router and the heap as the call leaves them.
TryRoutePacket(r, pk, p) ==
    LET nextDir == ComputeNextHop(r, pk[p])
        hops == pk[p].HopCount + 1
    IN  IF r.OutputPorts[nextDir].Occupied
        THEN [success |-> FALSE,
              r  |-> [r EXCEPT !.packetsBlocked = @ + 1],
              pk |-> pk]
        ELSE [success |-> TRUE,
              r  |-> [r EXCEPT !.OutputPorts[nextDir] = [Occupied |-> TRUE, Packet |-> p],
                               !.packetsRouted = @ + 1,
                               !.totalHops = @ + hops],
              pk |-> [pk EXCEPT ![p].HopCount = hops]]

\* Router.Cycle, phase 1: every output port is cleared
ClearOutputs(r) == [r EXCEPT !.OutputPorts = [d \in Dir |-> EmptyPort]]

\* Router.Cycle, phase 2, the loop body for one input port
RouteInput(st, dir) ==
    LET inputPort == st.r.InputPorts[dir]
    IN  IF inputPort.Occupied /\ inputPort.Packet # NilPacket
        THEN LET t == TryRoutePacket(st.r, st.pk, inputPort.Packet)
             IN  IF t.success
                 THEN [r |-> [t.r EXCEPT !.InputPorts[dir] = EmptyPort], pk |-> t.pk]
                 ELSE [r |-> t.r, pk |-> t.pk]
        ELSE st

RECURSIVE RouteInputs(_, _)
RouteInputs(st, ord) ==
    IF ord = <<>> THEN st
    ELSE RouteInputs(RouteInput(st, Head(ord)), Tail(ord))

\* Router.Cycle with the input ports visited in the order ord
RouterCycleIn(r, pk, ord) ==
    LET st == RouteInputs([r |-> ClearOutputs(r), pk |-> pk], ord)
    IN  [r |-> [st.r EXCEPT !.cycles = @ + 1], pk |-> st.pk]

\* every sequence that lists the members of S once each
RECURSIVE RangeOrders(_)
RangeOrders(S) ==
    IF S = {} THEN {<<>>}
    ELSE UNION {{<<d>> \o t : t \in RangeOrders(S \ {d})} : d \in S}

\* InputPorts is a Go map: `range r.InputPorts` visits its five keys in an order
\* the language leaves unspecified, a fresh one on every loop.  The loop body does
\* nothing for a port that is not occupied, so the orders of the occupied ports
\* are the orders that matter.
MapOrders(r) == RangeOrders({d \in Dir : r.InputPorts[d].Occupied})

\* what one Router.Cycle call can leave behind
RouterCycle(r, pk) == {RouterCycleIn(r, pk, ord) : ord \in MapOrders(r)}

\* Router.ReceivePacket(packet, fromDir)
ReceivePacket(r, pk, p, fromDir) ==
    IF r.InputPorts[fromDir].Occupied
    THEN [success |-> FALSE, r |-> r, pk |-> pk]
    ELSE [success |-> TRUE,
          r  |-> [r EXCEPT !.InputPorts[fromDir] = [Occupied |-> TRUE, Packet |-> p]],
          pk |-> [pk EXCEPT ![p].CurrentX = r.PositionX, ![p].CurrentY = r.PositionY]]

\* Router.IsIdle
IsIdle(r) ==
    /\ \A d \in Dir : ~r.InputPorts[d].Occupied
    /\ \A d \in Dir : ~r.OutputPorts[d].Occupied

\* ------------------------------------------------------------- MeshNetwork
\* A world is the mesh together with what its pointers reach: the MeshNetwork
\* struct mn, the Packet heap, and log, the record of the deliveries made so far
\* (one entry per packet counted as delivered: where and when the mesh drained it).
Positions(width, height) == (0 .. width - 1) \X (0 .. height - 1)

MeshInit(width, height, algorithm) ==
    [width |-> width, height |-> height, routingAlgorithm |-> algorithm,
     activePackets |-> {}, nextPacketID |-> 0,
     routers |-> [pos \in Positions(width, height) |->
                     RouterInit(pos[1], pos[2], algorithm)],
     totalPacketsDelivered |-> 0, totalPacketLatency |-> 0,
     totalPacketsInjected |-> 0, cycles |-> 0]

isValidPosition(m, x, y) == x >= 0 /\ x < m.width /\ y >= 0 /\ y < m.height

\* the heap with one more cell, at index p
Alloc(pk, p, packet) == [i \in DOMAIN pk \cup {p} |-> IF i = p THEN packet ELSE pk[i]]

\* a plausible slip: the id is taken and the injection counted before the router
\* is asked whether it can take the packet
InjectPacketEager(w, srcX, srcY, dstX, dstY) ==
    IF ~isValidPosition(w.mn, srcX, srcY)
    THEN [id |-> -1, err |-> "invalid source", w |-> w]
    ELSE IF ~isValidPosition(w.mn, dstX, dstY)
    THEN [id |-> -1, err |-> "invalid destination", w |-> w]
    ELSE
    LET p == w.mn.nextPacketID
        packet == [NewPacket(srcX, 0, srcY, dstX, 0, dstY) EXCEPT !.Timestamp = w.mn.cycles]
        rcv == ReceivePacket(w.mn.routers[<<srcX, srcY>>], Alloc(w.packets, p, packet),
                             p, LOCAL_DIR)
        counted == [w EXCEPT !.mn.nextPacketID = @ + 1,
                             !.mn.totalPacketsInjected = @ + 1,
                             !.packets = Alloc(w.packets, p, packet)]
    IN  IF ~rcv.success
        THEN [id |-> -1, err |-> "busy", w |-> counted]
        ELSE [id |-> p, err |-> "none",
              w |-> [counted EXCEPT !.mn.routers[<<srcX, srcY>>] = rcv.r,
                                    !.mn.activePackets = @ \cup {p},
                                    !.packets = rcv.pk]]

\* MeshNetwork.InjectPacket(srcX, srcY, dstX, dstY, data): the returned id and
\* error, and the world as the call leaves it.  A packet the router refuses is
\* reachable from nowhere afterwards, so the heap keeps no cell for it.
InjectPacket(w, srcX, srcY, dstX, dstY) ==
    IF ~isValidPosition(w.mn, srcX, srcY)
    THEN [id |-> -1, err |-> "invalid source", w |-> w]
    ELSE IF ~isValidPosition(w.mn, dstX, dstY)
    THEN [id |-> -1, err |-> "invalid destination", w |-> w]
    ELSE
    LET p == w.mn.nextPacketID
        packet == [NewPacket(srcX, 0, srcY, dstX, 0, dstY) EXCEPT !.Timestamp = w.mn.cycles]
        rcv == ReceivePacket(w.mn.routers[<<srcX, srcY>>], Alloc(w.packets, p, packet),
                             p, LOCAL_DIR)
    IN  IF ~rcv.success
        THEN [id |-> -1, err |-> "busy", w |-> w]
        ELSE [id |-> p, err |-> "none",
              w |-> [w EXCEPT !.mn.routers[<<srcX, srcY>>] = rcv.r,
                              !.packets = rcv.pk,
                              !.mn.nextPacketID = @ + 1,
                              !.mn.activePackets = @ \cup {p},
                              !.mn.totalPacketsInjected = @ + 1]]

\* the routers in the order of the loops `for x ... for y ...`
PosSeq(m) ==
    [i \in 1 .. m.width * m.height |-> <<(i - 1) \div m.height, (i - 1) % m.height>>]

\* MeshNetwork.Cycle, phase 1: every router's Cycle, one router after the other.
\* ws is the set of worlds the routers before may have left.
RECURSIVE RouterPhase(_, _)
RouterPhase(ws, seq) ==
    IF seq = <<>> THEN ws
    ELSE RouterPhase(
             UNION {{[w EXCEPT !.mn.routers[Head(seq)] = o.r, !.packets = o.pk] :
                        o \in RouterCycle(w.mn.routers[Head(seq)], w.packets)} : w \in ws},
             Tail(seq))

\* a plausible slip: the hand-off resets the flag of the output port and leaves
\* the packet reference in it
HandoffKeepsPacket(w, pos, d, hasNeighbour, npos, opp) ==
    IF w.mn.routers[pos].OutputPorts[d].Occupied /\ hasNeighbour
    THEN LET packet == w.mn.routers[pos].OutputPorts[d].Packet
             rcv == ReceivePacket(w.mn.routers[npos], w.packets, packet, opp)
         IN  IF rcv.success
             THEN [w EXCEPT !.mn.routers[npos] = rcv.r,
                            !.packets = rcv.pk,
                            !.mn.routers[pos].OutputPorts[d].Occupied = FALSE]
             ELSE w
    ELSE w

\* phase 2, one cardinal output d of the router at pos: hand the packet to the
\* input port opp of the neighbour at npos, when there is a neighbour
Handoff(w, pos, d, hasNeighbour, npos, opp) ==
    IF w.mn.routers[pos].OutputPorts[d].Occupied /\ hasNeighbour
    THEN LET packet == w.mn.routers[pos].OutputPorts[d].Packet
             rcv == ReceivePacket(w.mn.routers[npos], w.packets, packet, opp)
         IN  IF rcv.success
             THEN [w EXCEPT !.mn.routers[npos] = rcv.r,
                            !.packets = rcv.pk,
                            !.mn.routers[pos].OutputPorts[d] = EmptyPort]
             ELSE w
    ELSE w

\* a plausible slip: the delivery is counted but the packet is not found in the
\* activePackets map, and stays there
DeliverForgets(w, pos) ==
    LET port == w.mn.routers[pos].OutputPorts[LOCAL_DIR]
        packet == port.Packet
        latency == w.mn.cycles - w.packets[packet].Timestamp
    IN  IF port.Occupied /\ packet # NilPacket
        THEN [w EXCEPT !.mn.totalPacketsDelivered = @ + 1,
                       !.mn.totalPacketLatency = @ + latency,
                       !.mn.routers[pos].OutputPorts[LOCAL_DIR] = EmptyPort,
                       !.log = @ \cup {[packet |-> packet, x |-> pos[1], y |-> pos[2],
                                        latency |-> latency, cycle |-> w.mn.cycles]}]
        ELSE w

\* a plausible slip: the latency taken as if the cycle counter had already advanced
DeliverLate(w, pos) ==
    LET port == w.mn.routers[pos].OutputPorts[LOCAL_DIR]
        packet == port.Packet
        latency == w.mn.cycles + 1 - w.packets[packet].Timestamp
    IN  IF port.Occupied /\ packet # NilPacket
        THEN [w EXCEPT !.mn.totalPacketsDelivered = @ + 1,
                       !.mn.totalPacketLatency = @ + latency,
                       !.mn.activePackets = @ \ {packet},
                       !.mn.routers[pos].OutputPorts[LOCAL_DIR] = EmptyPort,
                       !.log = @ \cup {[packet |-> packet, x |-> pos[1], y |-> pos[2],
                                        latency |-> latency, cycle |-> w.mn.cycles]}]
        ELSE w

\* phase 2, the LOCAL output of the router at pos: the packet is delivered
Deliver(w, pos) ==
    LET port == w.mn.routers[pos].OutputPorts[LOCAL_DIR]
        packet == port.Packet
        latency == w.mn.cycles - w.packets[packet].Timestamp
    IN  IF port.Occupied /\ packet # NilPacket
        THEN [w EXCEPT !.mn.totalPacketsDelivered = @ + 1,
                       !.mn.totalPacketLatency = @ + latency,
                       !.mn.activePackets = @ \ {packet},
                       !.mn.routers[pos].OutputPorts[LOCAL_DIR] = EmptyPort,
                       !.log = @ \cup {[packet |-> packet, x |-> pos[1], y |-> pos[2],
                                        latency |-> latency, cycle |-> w.mn.cycles]}]
        ELSE w

\* phase 2, the guards of the four hand-offs: the router at pos of a width x height
\* mesh has a neighbour in direction d
HasNeighbour(width, height, pos, d) ==
    CASE d = NORTH -> pos[2] < height - 1
      [] d = SOUTH -> pos[2] > 0
      [] d = EAST -> pos[1] < width - 1
      [] d = WEST -> pos[1] > 0
      [] OTHER -> FALSE

\* phase 2: the position of the router that takes what pos puts out in direction d
NeighbourOf(pos, d) ==
    CASE d = NORTH -> <<pos[1], pos[2] + 1>>
      [] d = SOUTH -> <<pos[1], pos[2] - 1>>
      [] d = EAST -> <<pos[1] + 1, pos[2]>>
      [] d = WEST -> <<pos[1] - 1, pos[2]>>
      [] OTHER -> pos

\* phase 2 for the router at pos: NORTH, SOUTH, EAST, WEST, then LOCAL
TransferRouter(w, pos) ==
    LET x == pos[1]
        y == pos[2]
        n == Handoff(w, pos, NORTH, y < w.mn.height - 1, <<x, y + 1>>, SOUTH)
        s == Handoff(n, pos, SOUTH, y > 0, <<x, y - 1>>, NORTH)
        e == Handoff(s, pos, EAST, x < w.mn.width - 1, <<x + 1, y>>, WEST)
        v == Handoff(e, pos, WEST, x > 0, <<x - 1, y>>, EAST)
    IN  Deliver(v, pos)

\* phase 2 over the routers of seq, in order.  ws holds the worlds left by the
\* routers before (phase 2 makes no choice: one world comes out of each world).
RECURSIVE TransferPhase(_, _)
TransferPhase(ws, seq) ==
    IF seq = <<>> THEN ws
    ELSE TransferPhase({TransferRouter(w, Head(seq)) : w \in ws}, Tail(seq))

\* MeshNetwork.Cycle: the worlds one call can leave
MeshCycle(w) ==
    {[v EXCEPT !.mn.cycles = @ + 1] :
        v \in TransferPhase(RouterPhase({w}, PosSeq(w.mn)), PosSeq(w.mn))}

\* MeshNetwork.IsEmpty
IsEmpty(m) == Cardinality(m.activePackets) = 0

\* a plausible slip: the budget is not looked at, the loop result is reported
\* as success once the budget is used up
RECURSIVE RunLoopOptimist(_, _, _)
RunLoopOptimist(w, startCycle, maxCycles) ==
    IF Cardinality(w.mn.activePackets) > 0 /\ w.mn.cycles - startCycle < maxCycles
    THEN UNION {RunLoopOptimist(v, startCycle, maxCycles) : v \in MeshCycle(w)}
    ELSE {[ok |-> TRUE, w |-> w]}

\* a plausible slip: the budget test is > instead of >=, one cycle too many
RECURSIVE RunLoopOneMore(_, _, _)
RunLoopOneMore(w, startCycle, maxCycles) ==
    IF Cardinality(w.mn.activePackets) > 0
    THEN IF w.mn.cycles - startCycle > maxCycles
         THEN {[ok |-> FALSE, w |-> w]}
         ELSE UNION {RunLoopOneMore(v, startCycle, maxCycles) : v \in MeshCycle(w)}
    ELSE {[ok |-> TRUE, w |-> w]}

\* the loop of MeshNetwork.RunUntilEmpty: the results (return value, world) it can end with
RECURSIVE RunLoop(_, _, _)
RunLoop(w, startCycle, maxCycles) ==
    IF Cardinality(w.mn.activePackets) > 0
    THEN IF w.mn.cycles - startCycle >= maxCycles
         THEN {[ok |-> FALSE, w |-> w]}
         ELSE UNION {RunLoop(v, startCycle, maxCycles) : v \in MeshCycle(w)}
    ELSE {[ok |-> TRUE, w |-> w]}

RunUntilEmpty(w, maxCycles) == RunLoop(w, w.mn.cycles, maxCycles)

\* ------------------------------------------------------------ CrossbarSwitch
\* inter_chip_switch.go.  The slices connections and reverseConnections are
\* functions on 0 .. n-1; -1 is "not connected".  Every method but Cycle takes
\* the mutex of the switch.  The operators are the methods run from the call to the
\* return; the contexts further down run them statement by statement.
NotConnected == -1

\* CrossbarSwitch.Init(numInputs, numOutputs)
CrossbarInit(numInputs, numOutputs) ==
    [numInputs |-> numInputs,
     numOutputs |-> numOutputs,
     connections |-> [i \in 0 .. numInputs - 1 |-> NotConnected],
     reverseConnections |-> [j \in 0 .. numOutputs - 1 |-> NotConnected],
     totalSwitches |-> 0,
     blockedAttempts |-> 0,
     cycles |-> 0]

\* a plausible slip: the output the input held before is not released
ConnectKeepsOld(c, inputID, outputID) ==
    IF inputID < 0 \/ inputID >= c.numInputs THEN [ok |-> FALSE, cs |-> c]
    ELSE IF outputID < 0 \/ outputID >= c.numOutputs THEN [ok |-> FALSE, cs |-> c]
    ELSE IF c.reverseConnections[outputID] # NotConnected
    THEN [ok |-> FALSE, cs |-> [c EXCEPT !.blockedAttempts = @ + 1]]
    ELSE [ok |-> TRUE,
          cs |-> [c EXCEPT !.connections[inputID] = outputID,
                           !.reverseConnections[outputID] = inputID,
                           !.totalSwitches = @ + 1]]

\* a plausible slip: a blocked attempt is not counted
ConnectUncounted(c, inputID, outputID) ==
    IF inputID < 0 \/ inputID >= c.numInputs THEN [ok |-> FALSE, cs |-> c]
    ELSE IF outputID < 0 \/ outputID >= c.numOutputs THEN [ok |-> FALSE, cs |-> c]
    ELSE IF c.reverseConnections[outputID] # NotConnected
    THEN [ok |-> FALSE, cs |-> c]
    ELSE LET prevOutput == c.connections[inputID]
             released == IF prevOutput # NotConnected
                         THEN [c.reverseConnections EXCEPT ![prevOutput] = NotConnected]
                         ELSE c.reverseConnections
         IN  [ok |-> TRUE,
              cs |-> [c EXCEPT !.connections[inputID] = outputID,
                               !.reverseConnections =
                                   [released EXCEPT ![outputID] = inputID],
                               !.totalSwitches = @ + 1]]

\* CrossbarSwitch.Connect(inputID, outputID): the returned boolean and the switch
\* as the call leaves it
Connect(c, inputID, outputID) ==
    IF inputID < 0 \/ inputID >= c.numInputs THEN [ok |-> FALSE, cs |-> c]
    ELSE IF outputID < 0 \/ outputID >= c.numOutputs THEN [ok |-> FALSE, cs |-> c]
    ELSE IF c.reverseConnections[outputID] # NotConnected
    THEN [ok |-> FALSE, cs |-> [c EXCEPT !.blockedAttempts = @ + 1]]
    ELSE LET prevOutput == c.connections[inputID]
             released == IF prevOutput # NotConnected
                         THEN [c.reverseConnections EXCEPT ![prevOutput] = NotConnected]
                         ELSE c.reverseConnections
         IN  [ok |-> TRUE,
              cs |-> [c EXCEPT !.connections[inputID] = outputID,
                               !.reverseConnections =
                                   [released EXCEPT ![outputID] = inputID],
                               !.totalSwitches = @ + 1]]

\* a plausible slip: only the input's side of the connection is released
DisconnectLeavesOutput(c, inputID) ==
    IF inputID < 0 \/ inputID >= c.numInputs THEN c
    ELSE IF c.connections[inputID] # NotConnected
         THEN [c EXCEPT !.connections[inputID] = NotConnected]
         ELSE c

\* CrossbarSwitch.Disconnect(inputID)
Disconnect(c, inputID) ==
    IF inputID < 0 \/ inputID >= c.numInputs THEN c
    ELSE LET outputID == c.connections[inputID]
         IN  IF outputID # NotConnected
             THEN [c EXCEPT !.connections[inputID] = NotConnected,
                            !.reverseConnections[outputID] = NotConnected]
             ELSE c

\* a plausible slip: the second loop is missing, the outputs stay claimed
DisconnectAllInputsOnly(c) ==
    [c EXCEPT !.connections = [i \in 0 .. c.numInputs - 1 |-> NotConnected]]

\* CrossbarSwitch.DisconnectAll()
DisconnectAll(c) ==
    [c EXCEPT !.connections = [i \in 0 .. c.numInputs - 1 |-> NotConnected],
              !.reverseConnections = [j \in 0 .. c.numOutputs - 1 |-> NotConnected]]

\* CrossbarSwitch.Cycle()
CrossbarCycle(c) == [c EXCEPT !.cycles = @ + 1]

\* Connect up to its branch: the range checks and the test of the output
ConnectChecks(c, inputID, outputID) ==
    IF inputID < 0 \/ inputID >= c.numInputs THEN "invalid"
    ELSE IF outputID < 0 \/ outputID >= c.numOutputs THEN "invalid"
    ELSE IF c.reverseConnections[outputID] # NotConnected THEN "busy"
    ELSE "free"

\* Connect when the output is busy: cs.blockedAttempts++
ConnectBusy(c) == [c EXCEPT !.blockedAttempts = @ + 1]

\* Connect when the output is free: the release of the previous output, the new
\* connection and cs.totalSwitches++
ConnectMake(c, inputID, outputID) ==
    LET prevOutput == c.connections[inputID]
        released == IF prevOutput # NotConnected
                    THEN [c.reverseConnections EXCEPT ![prevOutput] = NotConnected]
                    ELSE c.reverseConnections
    IN  [c EXCEPT !.connections[inputID] = outputID,
                  !.reverseConnections = [released EXCEPT ![outputID] = inputID],
                  !.totalSwitches = @ + 1]

\* CrossbarSwitch.IsConnected(inputID), for an inputID in range
IsConnected(c, inputID) == c.connections[inputID] # NotConnected

\* CrossbarSwitch.GetConnection(inputID), for an inputID in range
GetConnection(c, inputID) == c.connections[inputID]

\* CrossbarSwitch.GetStatistics(): the counters and the number of connected inputs
CrossbarGetStatistics(c) ==
    [total_switches |-> c.totalSwitches,
     blocked_attempts |-> c.blockedAttempts,
     cycles |-> c.cycles,
     active_connections |->
         Cardinality({i \in DOMAIN c.connections : c.connections[i] # NotConnected})]

\* ----------------------------------------------------------- InterChipSwitch
\* DQPinPartition.Init(totalPins, numChannels), when totalPins is a multiple of
\* numChannels; a pin list is a sequence
DQInit(totalPins, numChannels) ==
    [totalPins |-> totalPins,
     numChannels |-> numChannels,
     pinsPerChannel |-> totalPins \div numChannels,
     channelPins |-> [ch \in 0 .. numChannels - 1 |->
                         [i \in 1 .. totalPins \div numChannels |->
                             ch * (totalPins \div numChannels) + i - 1]]]

\* Go's integer division and remainder truncate towards zero, and the remainder
\* takes the sign of the dividend; neither is defined for a zero divisor
GoQuot(a, b) ==
    LET q == (IF a < 0 THEN -a ELSE a) \div (IF b < 0 THEN -b ELSE b)
    IN  IF (a < 0) = (b < 0) THEN q ELSE -q

GoRem(a, b) == a - b * GoQuot(a, b)

\* &DQPinPartition{}: the struct before Init, every field at its zero value
ZeroPartition ==
    [totalPins |-> 0, numChannels |-> 0, pinsPerChannel |-> 0, channelPins |-> <<>>]

\* a plausible slip: the fields are assigned before the remainder is looked at
DQPinPartitionInitAssignsFirst(p, totalPins, numChannels) ==
    IF numChannels = 0
    THEN [err |-> "panic: integer divide by zero", dq |-> p]
    ELSE IF GoRem(totalPins, numChannels) # 0
    THEN [err |-> "not evenly divisible",
          dq |-> [p EXCEPT !.totalPins = totalPins, !.numChannels = numChannels]]
    ELSE IF numChannels > 0 /\ GoQuot(totalPins, numChannels) < 0
    THEN [err |-> "panic: makeslice: len out of range",
          dq |-> [totalPins |-> totalPins,
                  numChannels |-> numChannels,
                  pinsPerChannel |-> GoQuot(totalPins, numChannels),
                  channelPins |-> <<>>]]
    ELSE [err |-> "none",
          dq |-> [totalPins |-> totalPins,
                  numChannels |-> numChannels,
                  pinsPerChannel |-> GoQuot(totalPins, numChannels),
                  channelPins |-> [ch \in 0 .. numChannels - 1 |->
                                      [i \in 1 .. GoQuot(totalPins, numChannels) |->
                                          ch * GoQuot(totalPins, numChannels) + i - 1]]]]

\* DQPinPartition.Init(totalPins, numChannels) on the partition p, for every pair
\* of ints: the error and the partition as the call leaves it.  totalPins %
\* numChannels panics when numChannels is 0; make([]int, pinsPerChannel) panics
\* when a channel is given a negative number of pins, after the three scalar
\* fields and the empty map were assigned.
DQPinPartitionInit(p, totalPins, numChannels) ==
    IF numChannels = 0
    THEN [err |-> "panic: integer divide by zero", dq |-> p]
    ELSE IF GoRem(totalPins, numChannels) # 0
    THEN [err |-> "not evenly divisible", dq |-> p]
    ELSE IF numChannels > 0 /\ GoQuot(totalPins, numChannels) < 0
    THEN [err |-> "panic: makeslice: len out of range",
          dq |-> [totalPins |-> totalPins,
                  numChannels |-> numChannels,
                  pinsPerChannel |-> GoQuot(totalPins, numChannels),
                  channelPins |-> <<>>]]
    ELSE [err |-> "none",
          dq |-> [totalPins |-> totalPins,
                  numChannels |-> numChannels,
                  pinsPerChannel |-> GoQuot(totalPins, numChannels),
                  channelPins |-> [ch \in 0 .. numChannels - 1 |->
                                      [i \in 1 .. GoQuot(totalPins, numChannels) |->
                                          ch * GoQuot(totalPins, numChannels) + i - 1]]]]

\* DQPinPartition.GetChannelPins(channelID): the pin numbers, as a set
GetChannelPins(p, channelID) ==
    {p.channelPins[channelID][i] : i \in DOMAIN p.channelPins[channelID]}

\* InterChipSwitch.Init(numChips, totalDQPins, numChannels), when the partition
\* is accepted.  activeTransfers maps a transfer id to its ChipTransfer.
InterChipInit(numChips, totalDQPins, numChannels) ==
    [numChips |-> numChips,
     dqPartition |-> DQInit(totalDQPins, numChannels),
     crossbar |-> CrossbarInit(numChips, numChips),
     activeTransfers |-> <<>>,
     nextTransferID |-> 0,
     totalTransfers |-> 0,
     totalBytes |-> 0,
     cycles |-> 0]

\* a plausible slip: the id is taken before the crossbar is asked, and a blocked
\* call has used it up
StartTransferConsumesId(sw, srcChip, dstChip, channelID, dataLen) ==
    IF srcChip < 0 \/ srcChip >= sw.numChips
    THEN [id |-> -1, err |-> "invalid source chip", ics |-> sw]
    ELSE IF dstChip < 0 \/ dstChip >= sw.numChips
    THEN [id |-> -1, err |-> "invalid destination chip", ics |-> sw]
    ELSE IF channelID < 0 \/ channelID >= sw.dqPartition.numChannels
    THEN [id |-> -1, err |-> "invalid channel", ics |-> sw]
    ELSE
    LET con == Connect(sw.crossbar, srcChip, dstChip)
        transfer == [TransferID |-> sw.nextTransferID,
                     SrcChipID |-> srcChip,
                     DstChipID |-> dstChip,
                     ChannelID |-> channelID,
                     DataLen |-> dataLen,
                     StartCycle |-> sw.cycles,
                     EndCycle |-> -1]
    IN  IF ~con.ok
        THEN [id |-> -1, err |-> "crossbar blocked",
              ics |-> [sw EXCEPT !.crossbar = con.cs, !.nextTransferID = @ + 1]]
        ELSE [id |-> transfer.TransferID, err |-> "none",
              ics |-> [sw EXCEPT !.crossbar = con.cs,
                                 !.activeTransfers =
                                     [t \in DOMAIN @ \cup {sw.nextTransferID} |->
                                         IF t = sw.nextTransferID THEN transfer ELSE @[t]],
                                 !.nextTransferID = @ + 1,
                                 !.totalTransfers = @ + 1,
                                 !.totalBytes = @ + dataLen]]

\* InterChipSwitch.StartTransfer(srcChip, dstChip, channelID, data), data of
\* length dataLen: the returned id and error, and the switch as the call leaves it
StartTransfer(sw, srcChip, dstChip, channelID, dataLen) ==
    IF srcChip < 0 \/ srcChip >= sw.numChips
    THEN [id |-> -1, err |-> "invalid source chip", ics |-> sw]
    ELSE IF dstChip < 0 \/ dstChip >= sw.numChips
    THEN [id |-> -1, err |-> "invalid destination chip", ics |-> sw]
    ELSE IF channelID < 0 \/ channelID >= sw.dqPartition.numChannels
    THEN [id |-> -1, err |-> "invalid channel", ics |-> sw]
    ELSE
    LET con == Connect(sw.crossbar, srcChip, dstChip)
        transfer == [TransferID |-> sw.nextTransferID,
                     SrcChipID |-> srcChip,
                     DstChipID |-> dstChip,
                     ChannelID |-> channelID,
                     DataLen |-> dataLen,
                     StartCycle |-> sw.cycles,
                     EndCycle |-> -1]
    IN  IF ~con.ok
        THEN [id |-> -1, err |-> "crossbar blocked",
              ics |-> [sw EXCEPT !.crossbar = con.cs]]
        ELSE [id |-> transfer.TransferID, err |-> "none",
              ics |-> [sw EXCEPT !.crossbar = con.cs,
                                 !.activeTransfers =
                                     [t \in DOMAIN @ \cup {sw.nextTransferID} |->
                                         IF t = sw.nextTransferID THEN transfer ELSE @[t]],
                                 !.nextTransferID = @ + 1,
                                 !.totalTransfers = @ + 1,
                                 !.totalBytes = @ + dataLen]]

\* a plausible slip: the entry is removed and the crossbar is left connected
CompleteTransferKeepsConnection(sw, transferID) ==
    IF transferID \notin DOMAIN sw.activeTransfers
    THEN [err |-> "transfer not found", ics |-> sw]
    ELSE [err |-> "none",
          ics |-> [sw EXCEPT !.activeTransfers =
                                 [t \in DOMAIN @ \ {transferID} |-> @[t]]]]

\* InterChipSwitch.CompleteTransfer(transferID): the error and the switch as the
\* call leaves it (the ChipTransfer, its EndCycle set, is dropped with its entry)
CompleteTransfer(sw, transferID) ==
    IF transferID \notin DOMAIN sw.activeTransfers
    THEN [err |-> "transfer not found", ics |-> sw]
    ELSE [err |-> "none",
          ics |-> [sw EXCEPT !.crossbar =
                                 Disconnect(@, sw.activeTransfers[transferID].SrcChipID),
                             !.activeTransfers =
                                 [t \in DOMAIN @ \ {transferID} |-> @[t]]]]

\* InterChipSwitch.Cycle()
SwitchCycle(sw) == [sw EXCEPT !.crossbar = CrossbarCycle(@), !.cycles = @ + 1]

\* --------------------------------------------------------- BroadcastTopology
\* the cycle budget Broadcast and BroadcastSimple hand to RunUntilEmpty
RunBudget == 1000
\* BroadcastSimple gives up once steps exceeds GetTreeDepth() + TimeoutSlack
TimeoutSlack == 5
\* node i sits at (i / NodesPerColumn, i % NodesPerColumn)
NodesPerColumn == 8

\* BroadcastTopology.Init(network, numNodes); the network is the world's mesh
BroadcastInit(numNodes) ==
    [numNodes |-> numNodes,
     branchingFactor |-> 2,
     nodePositions |-> [i \in 0 .. numNodes - 1 |->
                           [x |-> i \div NodesPerColumn, y |-> i % NodesPerColumn]],
     totalMessages |-> 0,
     totalLatency |-> 0,
     cycles |-> 0]

\* a plausible slip: the parent is nodeID / branchingFactor
GetParentNoOffset(b, nodeID) ==
    IF nodeID = 0 THEN -1 ELSE nodeID \div b.branchingFactor

\* BroadcastTopology.GetParent (nodeID - 1 is not negative where it is divided)
GetParent(b, nodeID) ==
    IF nodeID = 0 THEN -1 ELSE GoQuot(nodeID - 1, b.branchingFactor)

\* BroadcastTopology.GetChildren: the children in the order they are appended
RECURSIVE ChildrenFrom(_, _, _)
ChildrenFrom(b, nodeID, i) ==
    IF i >= b.branchingFactor
    THEN <<>>
    ELSE LET childID == nodeID * b.branchingFactor + 1 + i
         IN  (IF childID < b.numNodes THEN <<childID>> ELSE <<>>)
                 \o ChildrenFrom(b, nodeID, i + 1)

GetChildren(b, nodeID) == ChildrenFrom(b, nodeID, 0)

\* BroadcastTopology.GetTreeDepth
RECURSIVE DepthLoop(_, _, _)
DepthLoop(b, nodes, depth) ==
    IF nodes < b.numNodes
    THEN DepthLoop(b, nodes * b.branchingFactor, depth + 1)
    ELSE depth

GetTreeDepth(b) == IF b.numNodes <= 1 THEN 0 ELSE DepthLoop(b, 1, 0)

\* BroadcastTopology.SendToChildren(nodeID, data), from the child at index i on:
\* st is the world and the topology; the first refused injection ends the call
RECURSIVE SendLoop(_, _, _, _)
SendLoop(st, nodeID, children, i) ==
    IF i > Len(children)
    THEN [err |-> "none", w |-> st.w, bt |-> st.bt]
    ELSE LET src == st.bt.nodePositions[nodeID]
             dst == st.bt.nodePositions[children[i]]
             res == InjectPacket(st.w, src.x, src.y, dst.x, dst.y)
         IN  IF res.err # "none"
             THEN [err |-> "failed to send", w |-> st.w, bt |-> st.bt]
             ELSE SendLoop([w |-> res.w,
                            bt |-> [st.bt EXCEPT !.totalMessages = @ + 1]],
                           nodeID, children, i + 1)

SendToChildren(w, b, nodeID) ==
    SendLoop([w |-> w, bt |-> b], nodeID, GetChildren(b, nodeID), 1)
\* the nodes Broadcast collects in sendingNodes, in ascending order
SendingNodes(b, received) ==
    LET Sends(nodeID) == received[nodeID] /\ Len(GetChildren(b, nodeID)) > 0
    IN  SelectSeq([i \in 1 .. b.numNodes |-> i - 1], Sends)

\* the loop of Broadcast over sendingNodes, from index i on: st is the world, the
\* topology and the received array
RECURSIVE SendersLoop(_, _, _)
SendersLoop(st, senders, i) ==
    IF i > Len(senders)
    THEN [err |-> "none", w |-> st.w, bt |-> st.bt, received |-> st.received]
    ELSE LET children == GetChildren(st.bt, senders[i])
             res == SendToChildren(st.w, st.bt, senders[i])
         IN  IF res.err # "none"
             THEN [err |-> res.err, w |-> res.w, bt |-> res.bt, received |-> st.received]
             ELSE SendersLoop([w |-> res.w, bt |-> res.bt,
                               received |-> [n \in DOMAIN st.received |->
                                   st.received[n] \/ \E k \in DOMAIN children : children[k] = n]],
                              senders, i + 1)

\* the last loop of Broadcast: every node must have received
BroadcastCheck(st) ==
    [err |-> IF \E n \in DOMAIN st.received : ~st.received[n]
             THEN "did not receive data" ELSE "none",
     w |-> st.w, bt |-> st.bt, received |-> st.received]

\* the loop of Broadcast over the levels: the results it can end with
RECURSIVE LevelLoop(_, _, _)
LevelLoop(st, level, depth) ==
    IF level >= depth
    THEN {BroadcastCheck(st)}
    ELSE LET senders == SendingNodes(st.bt, st.received)
             sent == SendersLoop(st, senders, 1)
         IN  IF senders = <<>>
             THEN {BroadcastCheck(st)}
             ELSE IF sent.err # "none"
             THEN {sent}
             ELSE UNION {IF ~r.ok
                         THEN {[sent EXCEPT !.err = "network timeout", !.w = r.w]}
                         ELSE LevelLoop([w |-> r.w, bt |-> sent.bt, received |-> sent.received],
                                        level + 1, depth) :
                         r \in RunUntilEmpty(sent.w, RunBudget)}

\* BroadcastTopology.Broadcast(rootID, data): the results (error, world, topology and
\* the received array at the return) the call can end with
Broadcast(w, b, rootID) ==
    IF rootID < 0 \/ rootID >= b.numNodes
    THEN {[err |-> "invalid root ID", w |-> w, bt |-> b, received |-> <<>>]}
    ELSE LevelLoop([w |-> w, bt |-> b,
                    received |-> [n \in 0 .. b.numNodes - 1 |-> n = rootID]],
                   0, GetTreeDepth(b))

\* a plausible slip: a message is counted only when the network accepted it
RECURSIVE ScanChildrenCountsAccepted(_, _, _, _)
ScanChildrenCountsAccepted(st, nodeID, children, i) ==
    IF i > Len(children)
    THEN st
    ELSE IF st.hasData[children[i]]
    THEN ScanChildrenCountsAccepted(st, nodeID, children, i + 1)
    ELSE LET src == st.bt.nodePositions[nodeID]
             dst == st.bt.nodePositions[children[i]]
             res == InjectPacket(st.w, src.x, src.y, dst.x, dst.y)
         IN  ScanChildrenCountsAccepted(
                 [w |-> res.w,
                  bt |-> [st.bt EXCEPT !.totalMessages =
                                           IF res.err = "none" THEN @ + 1 ELSE @],
                  hasData |-> [st.hasData EXCEPT ![children[i]] = TRUE],
                  totalReceived |-> st.totalReceived + 1],
                 nodeID, children, i + 1)

\* the loop of BroadcastSimple over the children of nodeID, from index i on: st is
\* the world, the topology, hasData and totalReceived.  What InjectPacket returns
\* is dropped.
RECURSIVE ScanChildren(_, _, _, _)
ScanChildren(st, nodeID, children, i) ==
    IF i > Len(children)
    THEN st
    ELSE IF st.hasData[children[i]]
    THEN ScanChildren(st, nodeID, children, i + 1)
    ELSE LET src == st.bt.nodePositions[nodeID]
             dst == st.bt.nodePositions[children[i]]
             res == InjectPacket(st.w, src.x, src.y, dst.x, dst.y)
         IN  ScanChildren([w |-> res.w,
                           bt |-> [st.bt EXCEPT !.totalMessages = @ + 1],
                           hasData |-> [st.hasData EXCEPT ![children[i]] = TRUE],
                           totalReceived |-> st.totalReceived + 1],
                          nodeID, children, i + 1)

\* the loop of BroadcastSimple over the nodes, from nodeID on
RECURSIVE ScanNodes(_, _)
ScanNodes(st, nodeID) ==
    IF nodeID >= st.bt.numNodes
    THEN st
    ELSE IF ~st.hasData[nodeID]
    THEN ScanNodes(st, nodeID + 1)
    ELSE ScanNodes(ScanChildren(st, nodeID, GetChildren(st.bt, nodeID), 1), nodeID + 1)

\* the outer loop of BroadcastSimple: the results it can end with.  What
\* RunUntilEmpty returns is dropped.
RECURSIVE SimpleLoop(_, _)
SimpleLoop(st, steps) ==
    IF st.totalReceived < st.bt.numNodes
    THEN LET scanned == ScanNodes(st, 0)
         IN  UNION {IF steps + 1 > GetTreeDepth(st.bt) + TimeoutSlack
                    THEN {[steps |-> steps + 1, err |-> "broadcast timeout",
                           w |-> r.w, bt |-> scanned.bt, hasData |-> scanned.hasData]}
                    ELSE SimpleLoop([scanned EXCEPT !.w = r.w], steps + 1) :
                    r \in RunUntilEmpty(scanned.w, RunBudget)}
    ELSE {[steps |-> steps, err |-> "none",
           w |-> st.w, bt |-> st.bt, hasData |-> st.hasData]}

\* BroadcastTopology.BroadcastSimple(rootID, data): the results (steps, error,
\* world, topology and the hasData array at the return) the call can end with
BroadcastSimple(w, b, rootID) ==
    IF rootID < 0 \/ rootID >= b.numNodes
    THEN {[steps |-> 0, err |-> "invalid root ID", w |-> w, bt |-> b, hasData |-> <<>>]}
    ELSE SimpleLoop([w |-> w, bt |-> b,
                     hasData |-> [n \in 0 .. b.numNodes - 1 |-> n = rootID],
                     totalReceived |-> 1],
                    0)

\* the loop of MultiRootBroadcast over rootIDs, from index i on
RECURSIVE MultiRootLoop(_, _, _, _)
MultiRootLoop(w, b, rootIDs, i) ==
    IF i > Len(rootIDs)
    THEN {[err |-> "none", w |-> w, bt |-> b]}
    ELSE UNION {IF res.err # "none"
                THEN {[err |-> "broadcast from root failed", w |-> res.w, bt |-> res.bt]}
                ELSE MultiRootLoop(res.w, res.bt, rootIDs, i + 1) :
                res \in BroadcastSimple(w, b, rootIDs[i])}

\* BroadcastTopology.MultiRootBroadcast(rootIDs, data), data of numData arrays
MultiRootBroadcast(w, b, rootIDs, numData) ==
    IF Len(rootIDs) # numData
    THEN {[err |-> "number of roots and data arrays must match", w |-> w, bt |-> b]}
    ELSE MultiRootLoop(w, b, rootIDs, 1)

\* -------------------------------------------------------------- RingTopology
\* RingTopology.Init(network, numNodes): node id sits at (id / 8, id % 8)
RingInit(numNodes) ==
    [numNodes |-> numNodes,
     nodePositions |-> [i \in 0 .. numNodes - 1 |->
                           [x |-> i \div NodesPerColumn, y |-> i % NodesPerColumn]],
     totalMessages |-> 0]

\* a plausible slip: the predecessor is (nodeID - 1) % numNodes, which Go makes
\* -1 for node 0
GetPrevNodeNoWrap(r, nodeID) == GoRem(nodeID - 1, r.numNodes)

\* RingTopology.GetNextNode and GetPrevNode
GetNextNode(r, nodeID) == GoRem(nodeID + 1, r.numNodes)

GetPrevNode(r, nodeID) == GoRem(nodeID - 1 + r.numNodes, r.numNodes)

\* the ReduceOp variants
ReduceOps == {"SUM", "MAX", "MIN", "PROD"}

\* a plausible slip: MIN keeps the larger value
ApplyReduceMinIsMax(op, a, b) ==
    CASE op = "SUM" -> a + b
      [] op = "MAX" -> IF a > b THEN a ELSE b
      [] op = "MIN" -> IF a > b THEN a ELSE b
      [] op = "PROD" -> a * b

\* ApplyReduce(op, a, b)
ApplyReduce(op, a, b) ==
    CASE op = "SUM" -> a + b
      [] op = "MAX" -> IF a > b THEN a ELSE b
      [] op = "MIN" -> IF a < b THEN a ELSE b
      [] op = "PROD" -> a * b

\* the centralized fold of RingAllReduceSimple, from node i on
RECURSIVE FoldFrom(_, _, _, _)
FoldFrom(values, op, result, i) ==
    IF i > Len(values)
    THEN result
    ELSE FoldFrom(values, op, ApplyReduce(op, result, values[i]), i + 1)

\* RingTopology.RingAllReduceSimple(values, op): the scalar it returns
RingAllReduceSimple(r, values, op) == FoldFrom(values, op, values[1], 2)

\* ------------------------------------------------------ ReduceScatterTopology
\* ReduceScatterTopology.Init(network, numNodes)
ReduceScatterInit(numNodes) == [numNodes |-> numNodes]

\* column i of the chunks: what the nodes 0 .. N-1 hold for node i
Column(chunks, i) == [j \in DOMAIN chunks |-> chunks[j][i]]

\* a plausible slip: node i is handed the reduction of its own chunk, row i
ReduceScatterSimpleByRow(t, chunks, op) ==
    [i \in 1 .. t.numNodes |-> FoldFrom(chunks[i], op, chunks[i][1], 2)]

\* ReduceScatterTopology.ReduceScatterSimple(chunks, op): result[i] is the fold of
\* op over chunks[0][i], ..., chunks[N-1][i]
ReduceScatterSimple(t, chunks, op) ==
    [i \in 1 .. t.numNodes |->
        FoldFrom(Column(chunks, i), op, Column(chunks, i)[1], 2)]

\* ---------------------------------------------------- the coarse Interconnect
\* A []byte is the reference of its byte array in the heap (two slices of one array
\* see each other's writes); NilSlice is the nil slice.  A world of the Interconnect
\* is the struct together with the heap: [ic, heap].  The arrays of the callers are
\* numbered from 1; the array Write makes for a key is numbered after the key, below
\* NilSlice (the
\* array it replaces is referred to by sharedBuffer alone, hence gone), and the
\* array Read makes is ReturnedSlice (the caller keeps the latest one only).
NilSlice == -1

ReturnedSlice == 0

\* make([]byte, len(data)) in Write: the array made for the key of a DPU of i
SliceOfKey(i, key) == -2 - ((key[1] * i.numRanks + key[2]) * i.numDPUs + key[3])

\* f with v stored under k
Store(f, k, v) == [x \in DOMAIN f \cup {k} |-> IF x = k THEN v ELSE f[x]]

\* f without what it stores under k
Delete(f, k) == [x \in DOMAIN f \ {k} |-> f[x]]

\* Interconnect.Init(numChannels, numRanks, numDPUs, bandwidth), of positive
\* dimensions: sharedBuffer maps a key to the slice stored under it, transferQueues
\* a channel to its queue of requests
InterconnectInit(numChannels, numRanks, numDPUs, bandwidth) ==
    [sharedBuffer |-> <<>>,
     transferQueues |-> [c \in 0 .. numChannels - 1 |-> <<>>],
     totalTransfers |-> 0,
     totalBytesTransferred |-> 0,
     cycles |-> 0,
     numChannels |-> numChannels,
     numRanks |-> numRanks,
     numDPUs |-> numDPUs,
     bandwidth |-> bandwidth]

\* Interconnect.makeKey: "%d-%d-%d" of the three numbers, a different string for
\* every different triple
makeKey(channelID, rankID, dpuID) == <<channelID, rankID, dpuID>>

\* a plausible slip: a rank one beyond the last passes
validateDPUCoordinatesRankInclusive(i, channelID, rankID, dpuID) ==
    IF channelID < 0 \/ channelID >= i.numChannels THEN "invalid channel ID"
    ELSE IF rankID < 0 \/ rankID > i.numRanks THEN "invalid rank ID"
    ELSE IF dpuID < 0 \/ dpuID >= i.numDPUs THEN "invalid DPU ID"
    ELSE "none"

\* Interconnect.validateDPUCoordinates
validateDPUCoordinates(i, channelID, rankID, dpuID) ==
    IF channelID < 0 \/ channelID >= i.numChannels THEN "invalid channel ID"
    ELSE IF rankID < 0 \/ rankID >= i.numRanks THEN "invalid rank ID"
    ELSE IF dpuID < 0 \/ dpuID >= i.numDPUs THEN "invalid DPU ID"
    ELSE "none"

\* a plausible slip: Write stores the caller's slice, not a copy of it
InterconnectWriteKeepsSlice(w, channelID, rankID, dpuID, data) ==
    LET err == validateDPUCoordinates(w.ic, channelID, rankID, dpuID)
        key == makeKey(channelID, rankID, dpuID)
    IN  IF err # "none"
        THEN [err |-> err, w |-> w]
        ELSE [err |-> "none",
              w |-> [ic |-> [w.ic EXCEPT !.sharedBuffer = Store(@, key, data),
                                         !.totalTransfers = @ + 1,
                                         !.totalBytesTransferred = @ + Len(w.heap[data])],
                     heap |-> w.heap]]

\* Interconnect.Write(channelID, rankID, dpuID, data)
InterconnectWrite(w, channelID, rankID, dpuID, data) ==
    LET err == validateDPUCoordinates(w.ic, channelID, rankID, dpuID)
        key == makeKey(channelID, rankID, dpuID)
        copy == SliceOfKey(w.ic, key)
    IN  IF err # "none"
        THEN [err |-> err, w |-> w]
        ELSE [err |-> "none",
              w |-> [ic |-> [w.ic EXCEPT !.sharedBuffer = Store(@, key, copy),
                                         !.totalTransfers = @ + 1,
                                         !.totalBytesTransferred = @ + Len(w.heap[data])],
                     heap |-> Store(w.heap, copy, w.heap[data])]]

\* Interconnect.Read(srcChannelID, srcRankID, srcDpuID): the error, the slice
\* handed back and the world, whose heap holds the array of that slice
InterconnectRead(w, srcChannelID, srcRankID, srcDpuID) ==
    LET err == validateDPUCoordinates(w.ic, srcChannelID, srcRankID, srcDpuID)
        key == makeKey(srcChannelID, srcRankID, srcDpuID)
        result == ReturnedSlice
    IN  IF err # "none"
        THEN [err |-> err, data |-> NilSlice, w |-> w]
        ELSE IF key \notin DOMAIN w.ic.sharedBuffer
        THEN [err |-> "no data", data |-> NilSlice, w |-> w]
        ELSE [err |-> "none", data |-> result,
              w |-> [w EXCEPT !.heap = Store(@, result, w.heap[w.ic.sharedBuffer[key]])]]

\* what Read of key hands back in world w: the error and the bytes of the slice
ReadBytes(w, key) ==
    LET res == InterconnectRead(w, key[1], key[2], key[3])
    IN  [err |-> res.err,
         bytes |-> IF res.err = "none" THEN res.w.heap[res.data] ELSE <<>>]

\* a TransferRequest (the Timestamp is never read)
TransferRequest(srcKey, dstKey, data) ==
    [SrcChannelID |-> srcKey[1], SrcRankID |-> srcKey[2], SrcDpuID |-> srcKey[3],
     DstChannelID |-> dstKey[1], DstRankID |-> dstKey[2], DstDpuID |-> dstKey[3],
     Data |-> data]

\* Interconnect.Transfer(req)
InterconnectTransfer(w, req) ==
    LET srcErr == validateDPUCoordinates(w.ic, req.SrcChannelID, req.SrcRankID, req.SrcDpuID)
        dstErr == validateDPUCoordinates(w.ic, req.DstChannelID, req.DstRankID, req.DstDpuID)
    IN  IF srcErr # "none"
        THEN [err |-> "invalid source", w |-> w]
        ELSE IF dstErr # "none"
        THEN [err |-> "invalid destination", w |-> w]
        ELSE [err |-> "none",
              w |-> [w EXCEPT !.ic.transferQueues[req.SrcChannelID] = Append(@, req)]]

\* the body of the loop of Cycle for one channel: the head of its queue leaves the
\* queue, and sharedBuffer holds the slice of the request, not a copy
RetireChannel(w, channelID) ==
    LET queue == w.ic.transferQueues[channelID]
        req == Head(queue)
        dstKey == makeKey(req.DstChannelID, req.DstRankID, req.DstDpuID)
    IN  IF Len(queue) > 0
        THEN [w EXCEPT !.ic.transferQueues[channelID] = Tail(queue),
                       !.ic.sharedBuffer = Store(@, dstKey, req.Data),
                       !.ic.totalTransfers = @ + 1,
                       !.ic.totalBytesTransferred = @ + Len(w.heap[req.Data])]
        ELSE w

\* the loop of Cycle over the channels of ord, in order
RECURSIVE RetireChannels(_, _)
RetireChannels(w, ord) ==
    IF ord = <<>> THEN w ELSE RetireChannels(RetireChannel(w, Head(ord)), Tail(ord))

\* Interconnect.Cycle(): `for channelID := range ic.transferQueues` visits the
\* channels in an order Go leaves open, so every order is a possible outcome
InterconnectCycle(w) ==
    {[RetireChannels(w, ord) EXCEPT !.ic.cycles = @ + 1] :
        ord \in RangeOrders(DOMAIN w.ic.transferQueues)}

\* Interconnect.IsEmpty()
InterconnectIsEmpty(i) == \A c \in DOMAIN i.transferQueues : Len(i.transferQueues[c]) = 0

\* Interconnect.Clear(channelID, rankID, dpuID)
InterconnectClear(w, channelID, rankID, dpuID) ==
    [w EXCEPT !.ic.sharedBuffer = Delete(@, makeKey(channelID, rankID, dpuID))]

\* the arrays some slice still refers to: those of the slices in held, of
\* sharedBuffer and of the queued requests.  The others are garbage.
Reachable(w, held) ==
    [r \in (held \cup {w.ic.sharedBuffer[k] : k \in DOMAIN w.ic.sharedBuffer}
                 \cup UNION {{w.ic.transferQueues[c][n].Data :
                                 n \in 1 .. Len(w.ic.transferQueues[c])} :
                             c \in DOMAIN w.ic.transferQueues})
            \cap DOMAIN w.heap |-> w.heap[r]]

\* ------------------------------------------------------------- sync.RWMutex
\* The mutex of a struct: the context that holds it for writing (NoContext when
\* nobody does) and the contexts that hold it for reading.  Contexts are numbered
\* from 1.
NoContext == 0

FreeMutex == [writer |-> NoContext, readers |-> {}]

\* a plausible slip: the method does not wait for the mutex
CanLockAlways(m) == TRUE

\* mu.Lock() returns once nobody holds the mutex
CanLock(m) == m.writer = NoContext /\ m.readers = {}

\* mu.RLock() returns once nobody holds the mutex for writing
CanRLock(m) == m.writer = NoContext

\* a plausible slip: the mutex is not marked as held
LockNotTaken(m, t) == m

Lock(m, t) == [m EXCEPT !.writer = t]

Unlock(m, t) == [m EXCEPT !.writer = NoContext]

RLock(m, t) == [m EXCEPT !.readers = @ \cup {t}]

RUnlock(m, t) == [m EXCEPT !.readers = @ \ {t}]

\* ------------------------------------------------------------ state machine
VARIABLES
    mn,         \* the MeshNetwork struct, its router grid included
    packets,    \* the Packet heap: packet reference -> Packet
    log,        \* the deliveries made so far
    router,     \* a Router used on its own, as router_test.go does
    ret,        \* the last call and what it returned
    fewer,      \* how many packets fewer than the bound this run may inject
    cs,         \* a CrossbarSwitch used on its own
    ics,        \* an InterChipSwitch, its crossbar included
    dq,         \* a DQPinPartition used on its own
    bt,         \* a BroadcastTopology on the mesh mn
    ring,       \* a RingTopology
    rs,         \* a ReduceScatterTopology
    arg,        \* what the last call on a topology was handed
    out,        \* what it handed back besides the error: the marks, the scalar
    ic,         \* the coarse Interconnect
    heap,       \* the byte arrays behind the slices: array reference -> bytes
    threads,    \* the contexts that call concurrently: where each one stands
    mu          \* the sync.RWMutex of the object the contexts share

vars == <<mn, packets, log, router, ret, fewer, cs, ics, dq, bt, ring, rs, arg, out,
          ic, heap, threads, mu>>

\* what only the calls on the topologies change
collectiveVars == <<bt, ring, rs, arg, out>>

\* the topologies of a run that calls none of them
CollectiveIdle ==
    /\ bt = BroadcastInit(1)
    /\ ring = RingInit(1)
    /\ rs = ReduceScatterInit(1)
    /\ arg = <<>>
    /\ out = <<>>

\* what only the calls on the pin partition change
partitionVars == <<dq>>

\* what only the calls on the coarse Interconnect and its callers change
coarseVars == <<ic, heap>>

\* the Interconnect of a run that never calls it
CoarseIdle ==
    /\ ic = InterconnectInit(1, 1, 1, 1)
    /\ heap = <<>>

\* what only concurrent callers change
contextVars == <<threads, mu>>

\* a run of one context, which never waits for a mutex
NoContexts ==
    /\ threads = <<>>
    /\ mu = FreeMutex

\* what the calls on the mesh and on the router leave alone
switchVars == <<cs, ics>>

\* what the calls on the crossbar and on the inter-chip switch leave alone
meshVars == <<mn, packets, log, router, fewer>>

World == [mn |-> mn, packets |-> packets, log |-> log]

Ret(op, err, id, ok) == [op |-> op, err |-> err, id |-> id, ok |-> ok]

\* the points the callers hand to InjectPacket as source and as destination: the
\* grid, a point beyond its width and a point beyond its height
InjectPoints == Positions(mn.width, mn.height) \cup {<<mn.width, 0>>, <<0, mn.height>>}

InitOn(sizes, algorithms) ==
    /\ \E sz \in sizes, algorithm \in algorithms :
          /\ mn = MeshInit(sz[1], sz[2], algorithm)
          /\ fewer = sz[3]
    /\ packets = <<>>
    /\ log = {}
    /\ router = RouterInit(0, 0, XY_ROUTING)
    /\ cs = CrossbarInit(1, 1)
    /\ ics = InterChipInit(1, 1, 1)
    /\ dq = ZeroPartition
    /\ CoarseIdle
    /\ NoContexts
    /\ CollectiveIdle
    /\ ret = Ret("Init", "none", -1, TRUE)

Init == InitOn(MeshSizes, RoutingAlgorithm)

\* a call of MeshNetwork.InjectPacket; the mesh accepts it only as long as fewer
\* than maxPackets packets were accepted (a refused call is always possible)
InjectUpTo(maxPackets) ==
    /\ \E res \in {InjectPacket(World, src[1], src[2], dst[1], dst[2]) :
                          src \in InjectPoints, dst \in InjectPoints} :
              /\ res.err = "none" => mn.nextPacketID < maxPackets - fewer
              /\ mn' = res.w.mn
              /\ packets' = res.w.packets
              /\ log' = res.w.log
              /\ ret' = Ret("InjectPacket", res.err, res.id, res.err = "none")
    /\ UNCHANGED <<router, fewer, switchVars, partitionVars, coarseVars, contextVars, collectiveVars>>

\* a call of MeshNetwork.Cycle, as long as the cycle counter is below maxCycles
CycleUpTo(maxCycles) ==
    /\ mn.cycles < maxCycles
    /\ \E v \in MeshCycle(World) :
          /\ mn' = v.mn
          /\ packets' = v.packets
          /\ log' = v.log
    /\ ret' = Ret("Cycle", "none", -1, TRUE)
    /\ UNCHANGED <<router, fewer, switchVars, partitionVars, coarseVars, contextVars, collectiveVars>>

Inject == InjectUpTo(MaxPackets)

Cycle == CycleUpTo(MaxCycles)

\* a call of MeshNetwork.RunUntilEmpty(maxCycles), as long as its budget keeps the
\* cycle counter within cycleBound
RunUntilEmptyUpTo(cycleBound) ==
    \E maxCycles \in 0 .. MaxRun :
        /\ mn.cycles + maxCycles <= cycleBound
        /\ \E res \in RunUntilEmpty(World, maxCycles) :
              /\ mn' = res.w.mn
              /\ packets' = res.w.packets
              /\ log' = res.w.log
              /\ ret' = Ret("RunUntilEmpty", "none", -1, res.ok)
        /\ UNCHANGED <<router, fewer, switchVars, partitionVars, coarseVars, contextVars, collectiveVars>>

RunUntilEmptyCall == RunUntilEmptyUpTo(MaxCycles)

Next == Inject \/ Cycle \/ RunUntilEmptyCall

Spec == Init /\ [][Next]_vars

\* ------------------------------------------------- a single packet on a 4x4 mesh
\* mesh_network_test.go: one packet injected into an idle mesh, then cycles
SingleInit == InitOn(SingleMeshSizes, RoutingAlgorithm)

\* the test injects its packet and then only cycles
InjectSingle == mn.nextPacketID < 1 /\ InjectUpTo(1)

CycleSingle == CycleUpTo(MaxSingleCycles)

SingleNext == InjectSingle \/ CycleSingle

SpecSingle == SingleInit /\ [][SingleNext]_vars

\* ------------------------------------------- injections and cycles, for ever
\* A caller that keeps calling Cycle, as RunUntilEmpty and the collectives do, on a
\* mesh with XY routing.  Routing never reads the cycle counters; here they are
\* integers so narrow that they wrap at LiveCycles, and the run goes on for ever
\* within finitely many states.
WrapCounters(m) ==
    [m EXCEPT !.cycles = @ % LiveCycles,
              !.routers = [pos \in DOMAIN @ |-> [@[pos] EXCEPT !.cycles = @ % LiveCycles]]]

LiveInit == InitOn(LiveMeshSizes, {XY_ROUTING})

\* the caller injects its LivePackets packets and then only cycles
InjectLive == mn.nextPacketID < LivePackets /\ InjectUpTo(LivePackets)

CycleLive ==
    /\ \E v \in MeshCycle(World) :
          /\ mn' = WrapCounters(v.mn)
          /\ packets' = v.packets
          /\ log' = v.log
    /\ ret' = Ret("Cycle", "none", -1, TRUE)
    /\ UNCHANGED <<router, fewer, switchVars, partitionVars, coarseVars, contextVars, collectiveVars>>

LiveNext == InjectLive \/ CycleLive

SpecLive == LiveInit /\ [][LiveNext]_vars /\ WF_vars(CycleLive)

\* ----------------------------------- three packets in a row, then RunUntilEmpty
\* a caller on the 2x1 mesh with XY routing that injects up to RunPackets packets,
\* cycles and calls RunUntilEmpty
RunInit == InitOn(LiveMeshSizes, {XY_ROUTING})

InjectRun == InjectUpTo(RunPackets)

CycleRun == CycleUpTo(RunCycles)

RunUntilEmptyRun == RunUntilEmptyUpTo(RunCycles)

RunNext == InjectRun \/ CycleRun \/ RunUntilEmptyRun

SpecRun == RunInit /\ [][RunNext]_vars

\* ------------------------------------------------------- a router on its own
\* router_test.go: a Router that is in no mesh; the test hands it packets through
\* ReceivePacket on any input port and calls Cycle itself
\* the router sits in the middle of the destinations of its packets, so that the
\* offsets dx and dy each take a negative value, zero and a positive value
RouterCoords == (RouterAtX - 1) .. (RouterAtX + 1)

RouterAloneInit ==
    /\ mn = MeshInit(1, 1, XY_ROUTING)
    /\ packets = <<>>
    /\ log = {}
    /\ fewer = 0
    /\ \E algorithm \in RoutingAlgorithm : router = RouterInit(RouterAtX, RouterAtY, algorithm)
    /\ cs = CrossbarInit(1, 1)
    /\ ics = InterChipInit(1, 1, 1)
    /\ dq = ZeroPartition
    /\ CoarseIdle
    /\ NoContexts
    /\ CollectiveIdle
    /\ ret = Ret("Init", "none", -1, TRUE)

\* packet := NewPacket(0, 0, 0, dstX, 0, dstY, data); router.ReceivePacket(packet, fromDir)
RouterReceive ==
    /\ Cardinality(DOMAIN packets) < MaxReceives
    /\ \E dstX \in RouterCoords, dstY \in RouterCoords, fromDir \in Dir :
          LET p == Cardinality(DOMAIN packets)
              rcv == ReceivePacket(router, Alloc(packets, p, NewPacket(0, 0, 0, dstX, 0, dstY)),
                                   p, fromDir)
          IN  /\ router' = rcv.r
              /\ packets' = IF rcv.success THEN rcv.pk ELSE packets
              /\ ret' = Ret("ReceivePacket", "none", -1, rcv.success)
    /\ UNCHANGED <<mn, log, fewer, switchVars, partitionVars, coarseVars, contextVars, collectiveVars>>

\* router.Cycle()
RouterCycleCall ==
    /\ router.cycles < MaxRouterCycles
    /\ \E o \in RouterCycle(router, packets) :
          /\ router' = o.r
          /\ packets' = o.pk
    /\ ret' = Ret("Router.Cycle", "none", -1, TRUE)
    /\ UNCHANGED <<mn, log, fewer, switchVars, partitionVars, coarseVars, contextVars, collectiveVars>>

RouterNext == RouterReceive \/ RouterCycleCall

SpecRouter == RouterAloneInit /\ [][RouterNext]_vars

\* ---------------------------------------------------- a crossbar on its own
\* inter_chip_switch_test.go: a CrossbarSwitch and calls of its methods, with
\* arguments from one below the range to one beyond it
CrossbarAloneInit ==
    /\ mn = MeshInit(1, 1, XY_ROUTING)
    /\ packets = <<>>
    /\ log = {}
    /\ fewer = 0
    /\ router = RouterInit(0, 0, XY_ROUTING)
    /\ \E sz \in CrossbarSizes : cs = CrossbarInit(sz[1], sz[2])
    /\ ics = InterChipInit(1, 1, 1)
    /\ dq = ZeroPartition
    /\ CoarseIdle
    /\ NoContexts
    /\ CollectiveIdle
    /\ ret = Ret("Init", "none", -1, TRUE)

\* crossbar.Connect(inputID, outputID)
ConnectCall ==
    /\ \E inputID \in -1 .. cs.numInputs, outputID \in -1 .. cs.numOutputs :
          LET res == Connect(cs, inputID, outputID)
          IN  /\ res.cs.totalSwitches <= MaxSwitches
              /\ res.cs.blockedAttempts <= MaxBlocked
              /\ cs' = res.cs
              /\ ret' = Ret("Connect", "none", -1, res.ok)
    /\ UNCHANGED <<meshVars, ics, partitionVars, coarseVars, contextVars, collectiveVars>>

\* crossbar.Disconnect(inputID)
DisconnectCall ==
    /\ \E inputID \in -1 .. cs.numInputs : cs' = Disconnect(cs, inputID)
    /\ ret' = Ret("Disconnect", "none", -1, TRUE)
    /\ UNCHANGED <<meshVars, ics, partitionVars, coarseVars, contextVars, collectiveVars>>

\* crossbar.DisconnectAll()
DisconnectAllCall ==
    /\ cs' = DisconnectAll(cs)
    /\ ret' = Ret("DisconnectAll", "none", -1, TRUE)
    /\ UNCHANGED <<meshVars, ics, partitionVars, coarseVars, contextVars, collectiveVars>>

\* crossbar.Cycle()
CrossbarCycleCall ==
    /\ cs.cycles < MaxCrossbarCycles
    /\ cs' = CrossbarCycle(cs)
    /\ ret' = Ret("Crossbar.Cycle", "none", -1, TRUE)
    /\ UNCHANGED <<meshVars, ics, partitionVars, coarseVars, contextVars, collectiveVars>>

CrossbarNext == ConnectCall \/ DisconnectCall \/ DisconnectAllCall \/ CrossbarCycleCall

SpecCrossbar == CrossbarAloneInit /\ [][CrossbarNext]_vars

\* ------------------------------------------------------ an inter-chip switch
\* inter_chip_switch_test.go: an InterChipSwitch, transfers started and completed
SwitchInit ==
    /\ mn = MeshInit(1, 1, XY_ROUTING)
    /\ packets = <<>>
    /\ log = {}
    /\ fewer = 0
    /\ router = RouterInit(0, 0, XY_ROUTING)
    /\ cs = CrossbarInit(1, 1)
    /\ \E cfg \in SwitchConfigs : ics = InterChipInit(cfg[1], cfg[2], cfg[3])
    /\ dq = ZeroPartition
    /\ CoarseIdle
    /\ NoContexts
    /\ CollectiveIdle
    /\ ret = Ret("Init", "none", -1, TRUE)

\* ics.StartTransfer(srcChip, dstChip, channelID, data)
StartTransferCall ==
    /\ \E res \in {StartTransfer(ics, srcChip, dstChip, channelID, dataLen) :
                        srcChip \in -1 .. ics.numChips, dstChip \in -1 .. ics.numChips,
                        channelID \in -1 .. ics.dqPartition.numChannels,
                        dataLen \in DataLens} :
          /\ res.ics.nextTransferID <= MaxTransfers
          /\ res.ics.crossbar.blockedAttempts <= MaxSwitchBlocked
          /\ ics' = res.ics
          /\ ret' = Ret("StartTransfer", res.err, res.id, res.err = "none")
    /\ UNCHANGED <<meshVars, cs, partitionVars, coarseVars, contextVars, collectiveVars>>

\* ics.CompleteTransfer(transferID)
CompleteTransferCall ==
    /\ \E transferID \in 0 .. MaxTransfers :
          LET res == CompleteTransfer(ics, transferID)
          IN  /\ ics' = res.ics
              /\ ret' = Ret("CompleteTransfer", res.err, transferID, res.err = "none")
    /\ UNCHANGED <<meshVars, cs, partitionVars, coarseVars, contextVars, collectiveVars>>

\* ics.Cycle()
SwitchCycleCall ==
    /\ ics.cycles < MaxSwitchCycles
    /\ ics' = SwitchCycle(ics)
    /\ ret' = Ret("Switch.Cycle", "none", -1, TRUE)
    /\ UNCHANGED <<meshVars, cs, partitionVars, coarseVars, contextVars, collectiveVars>>

SwitchNext == StartTransferCall \/ CompleteTransferCall \/ SwitchCycleCall

SpecSwitch == SwitchInit /\ [][SwitchNext]_vars

\* --------------------------------------------------- a pin partition on its own
\* inter_chip_switch_test.go: dq := &DQPinPartition{} and dq.Init(T, C); the ints
\* run from one below zero to the bounds, and Init may be called again
PartitionInit ==
    /\ mn = MeshInit(1, 1, XY_ROUTING)
    /\ packets = <<>>
    /\ log = {}
    /\ fewer = 0
    /\ router = RouterInit(0, 0, XY_ROUTING)
    /\ cs = CrossbarInit(1, 1)
    /\ ics = InterChipInit(1, 1, 1)
    /\ dq = ZeroPartition
    /\ CoarseIdle
    /\ NoContexts
    /\ CollectiveIdle
    /\ ret = Ret("Init", "none", -1, TRUE)

PinCounts == -1 .. MaxPins
ChannelCounts == -1 .. MaxChannels

\* dq.Init(totalPins, numChannels)
DQInitCall ==
    /\ \E totalPins \in PinCounts, numChannels \in ChannelCounts :
          LET res == DQPinPartitionInit(dq, totalPins, numChannels)
          IN  /\ dq' = res.dq
              /\ ret' = Ret("DQPinPartition.Init", res.err, totalPins, res.err = "none")
    /\ UNCHANGED <<meshVars, switchVars, collectiveVars, coarseVars, contextVars>>

PartitionNext == DQInitCall

SpecPartition == PartitionInit /\ [][PartitionNext]_vars

\* ------------------------------------------------- a broadcast tree on a mesh
\* collective_test.go: a mesh, broadcast.Init(network, N) and broadcasts on it.  The
\* mesh is the smallest grid of columns of NodesPerColumn routers that holds
\* MaxNodes nodes.
BroadcastMeshWidth == ((MaxNodes - 1) \div NodesPerColumn) + 1
BroadcastMeshHeight == IF MaxNodes < NodesPerColumn THEN MaxNodes ELSE NodesPerColumn

BroadcastTopologyInit ==
    /\ mn = MeshInit(BroadcastMeshWidth, BroadcastMeshHeight, XY_ROUTING)
    /\ packets = <<>>
    /\ log = {}
    /\ fewer = 0
    /\ router = RouterInit(0, 0, XY_ROUTING)
    /\ cs = CrossbarInit(1, 1)
    /\ ics = InterChipInit(1, 1, 1)
    /\ dq = ZeroPartition
    /\ CoarseIdle
    /\ NoContexts
    /\ \E numNodes \in 1 .. MaxNodes : bt = BroadcastInit(numNodes)
    /\ ring = RingInit(1)
    /\ rs = ReduceScatterInit(1)
    /\ arg = <<>>
    /\ out = <<>>
    /\ ret = Ret("Init", "none", -1, TRUE)

\* the roots handed to the broadcasts: the nodes, one below and one beyond
RootIDs == -1 .. bt.numNodes

\* broadcast.Broadcast(rootID, data)
BroadcastCall ==
    /\ mn.totalPacketsInjected < MaxInjected
    /\ \E rootID \in RootIDs :
       \E res \in Broadcast(World, bt, rootID) :
          /\ mn' = res.w.mn /\ packets' = res.w.packets /\ log' = res.w.log
          /\ bt' = res.bt
          /\ arg' = <<rootID>>
          /\ out' = res.received
          /\ ret' = Ret("Broadcast", res.err, -1, res.err = "none")
    /\ UNCHANGED <<router, fewer, switchVars, partitionVars, coarseVars, contextVars, ring, rs>>

\* broadcast.BroadcastSimple(rootID, data)
BroadcastSimpleCall ==
    /\ mn.totalPacketsInjected < MaxInjected
    /\ \E rootID \in RootIDs :
       \E res \in BroadcastSimple(World, bt, rootID) :
          /\ mn' = res.w.mn /\ packets' = res.w.packets /\ log' = res.w.log
          /\ bt' = res.bt
          /\ arg' = <<rootID>>
          /\ out' = res.hasData
          /\ ret' = Ret("BroadcastSimple", res.err, res.steps, res.err = "none")
    /\ UNCHANGED <<router, fewer, switchVars, partitionVars, coarseVars, contextVars, ring, rs>>

\* the root lists handed to MultiRootBroadcast: none, one or two nodes
RootLists ==
    {<<>>} \cup {<<a>> : a \in 0 .. bt.numNodes - 1}
           \cup {<<a, b>> : a \in 0 .. bt.numNodes - 1, b \in 0 .. bt.numNodes - 1}

\* broadcast.MultiRootBroadcast(rootIDs, data), with as many data arrays as roots
\* or one more
MultiRootBroadcastCall ==
    /\ mn.totalPacketsInjected < MaxInjected
    /\ \E rootIDs \in RootLists, numData \in 0 .. 3 :
       /\ numData \in {Len(rootIDs), Len(rootIDs) + 1}
       /\ \E res \in MultiRootBroadcast(World, bt, rootIDs, numData) :
          /\ mn' = res.w.mn /\ packets' = res.w.packets /\ log' = res.w.log
          /\ bt' = res.bt
          /\ arg' = rootIDs
          /\ out' = <<>>
          /\ ret' = Ret("MultiRootBroadcast", res.err, -1, res.err = "none")
    /\ UNCHANGED <<router, fewer, switchVars, partitionVars, coarseVars, contextVars, ring, rs>>

BroadcastNext == BroadcastCall \/ BroadcastSimpleCall \/ MultiRootBroadcastCall

SpecBroadcast == BroadcastTopologyInit /\ [][BroadcastNext]_vars

\* ------------------------------------------------------------------- a ring
\* collective_test.go: ring.Init(network, N) and calls on the ring
RingTopologyInit ==
    /\ mn = MeshInit(1, 1, XY_ROUTING)
    /\ packets = <<>>
    /\ log = {}
    /\ fewer = 0
    /\ router = RouterInit(0, 0, XY_ROUTING)
    /\ cs = CrossbarInit(1, 1)
    /\ ics = InterChipInit(1, 1, 1)
    /\ dq = ZeroPartition
    /\ CoarseIdle
    /\ NoContexts
    /\ bt = BroadcastInit(1)
    /\ \E numNodes \in RingSizes : ring = RingInit(numNodes)
    /\ rs = ReduceScatterInit(1)
    /\ arg = <<>>
    /\ out = <<>>
    /\ ret = Ret("Init", "none", -1, TRUE)

\* ring.GetNextNode(nodeID)
GetNextNodeCall ==
    /\ \E nodeID \in 0 .. ring.numNodes - 1 :
          /\ arg' = <<nodeID>>
          /\ out' = GetNextNode(ring, nodeID)
    /\ ret' = Ret("GetNextNode", "none", -1, TRUE)
    /\ UNCHANGED <<meshVars, switchVars, partitionVars, coarseVars, contextVars, bt, ring, rs>>

\* ring.GetPrevNode(nodeID)
GetPrevNodeCall ==
    /\ \E nodeID \in 0 .. ring.numNodes - 1 :
          /\ arg' = <<nodeID>>
          /\ out' = GetPrevNode(ring, nodeID)
    /\ ret' = Ret("GetPrevNode", "none", -1, TRUE)
    /\ UNCHANGED <<meshVars, switchVars, partitionVars, coarseVars, contextVars, bt, ring, rs>>

\* the value vectors handed to a ring: one value a node, drawn from ValueSet on a
\* small ring and from the vectors of the tests on the others
ValueVectors ==
    IF ring.numNodes <= MaxRing
    THEN [1 .. ring.numNodes -> ValueSet]
    ELSE {values \in TestVectors : Len(values) = ring.numNodes}

\* the operators a vector is reduced with: all of them, without PROD for the vector
\* of eight values, whose partial products leave the integers TLC computes with
OpsFor(values) == IF Len(values) > MaxRing + 1 THEN ReduceOps \ {"PROD"} ELSE ReduceOps

\* ring.RingAllReduceSimple(values, op)
RingAllReduceSimpleCall ==
    /\ \E values \in ValueVectors : \E op \in OpsFor(values) :
          /\ arg' = <<values, op>>
          /\ out' = RingAllReduceSimple(ring, values, op)
    /\ ret' = Ret("RingAllReduceSimple", "none", -1, TRUE)
    /\ UNCHANGED <<meshVars, switchVars, partitionVars, coarseVars, contextVars, bt, ring, rs>>

RingNext == GetNextNodeCall \/ GetPrevNodeCall \/ RingAllReduceSimpleCall

SpecRing == RingTopologyInit /\ [][RingNext]_vars

\* --------------------------------------------------------- a reduce-scatter
\* the chunks handed to a reduce-scatter of N nodes: N vectors of N values, drawn
\* from ChunkValues on a small topology and from the tests on the others
ChunkMatrices ==
    IF rs.numNodes <= MaxScatter
    THEN [1 .. rs.numNodes -> [1 .. rs.numNodes -> ChunkValues]]
    ELSE {chunks \in TestChunks : Len(chunks) = rs.numNodes}

\* the operators chunks are reduced with: all of them, without PROD for the chunks
\* of the tests, whose products leave the integers TLC computes with
ScatterOps == IF rs.numNodes > MaxScatter THEN ReduceOps \ {"PROD"} ELSE ReduceOps

\* collective_test.go: rs.Init(network, N) and ReduceScatterSimple on it
ReduceScatterTopologyInit ==
    /\ mn = MeshInit(1, 1, XY_ROUTING)
    /\ packets = <<>>
    /\ log = {}
    /\ fewer = 0
    /\ router = RouterInit(0, 0, XY_ROUTING)
    /\ cs = CrossbarInit(1, 1)
    /\ ics = InterChipInit(1, 1, 1)
    /\ dq = ZeroPartition
    /\ CoarseIdle
    /\ NoContexts
    /\ bt = BroadcastInit(1)
    /\ ring = RingInit(1)
    /\ \E numNodes \in ScatterSizes : rs = ReduceScatterInit(numNodes)
    /\ \E chunks \in ChunkMatrices : \E op \in ScatterOps : arg = <<chunks, op>>
    /\ out = <<>>
    /\ ret = Ret("Init", "none", -1, TRUE)

\* rs.ReduceScatterSimple(chunks, op), on the chunks and the operator the test set up
ReduceScatterSimpleCall ==
    /\ out' = ReduceScatterSimple(rs, arg[1], arg[2])
    /\ ret' = Ret("ReduceScatterSimple", "none", -1, TRUE)
    /\ UNCHANGED <<meshVars, switchVars, partitionVars, coarseVars, contextVars, bt, ring, rs,
                   arg>>

ReduceScatterNext == ReduceScatterSimpleCall

SpecReduceScatter == ReduceScatterTopologyInit /\ [][ReduceScatterNext]_vars

\* ------------------------------------------------- the coarse Interconnect
\* interconnect_test.go: an Interconnect and one context that calls it, handing it
\* slices of its own arrays and writing into the arrays it holds between the calls
CoarseInit ==
    /\ mn = MeshInit(1, 1, XY_ROUTING)
    /\ packets = <<>>
    /\ log = {}
    /\ fewer = 0
    /\ router = RouterInit(0, 0, XY_ROUTING)
    /\ cs = CrossbarInit(1, 1)
    /\ ics = InterChipInit(1, 1, 1)
    /\ dq = ZeroPartition
    /\ bt = BroadcastInit(1)
    /\ ring = RingInit(1)
    /\ rs = ReduceScatterInit(1)
    /\ arg = <<>>
    /\ out = NilSlice
    /\ NoContexts
    /\ \E cfg \in CoarseConfigs : ic = InterconnectInit(cfg[1], cfg[2], cfg[3], cfg[4])
    /\ heap = CallerPayloads
    /\ ret = Ret("Init", "none", -1, TRUE)

CoarseWorld == [ic |-> ic, heap |-> heap]

\* the slices of the arrays the caller made itself
CallerSlices == DOMAIN CallerPayloads

\* the slices the caller holds: its own and the one the last Read handed back
Held ==
    CallerSlices \cup (IF out \in DOMAIN heap THEN {out} ELSE {})

\* the coordinates of the DPUs of the Interconnect
ValidCoordinates ==
    (0 .. ic.numChannels - 1) \X (0 .. ic.numRanks - 1) \X (0 .. ic.numDPUs - 1)

\* every triple from one below to one beyond the ranges of the Interconnect
AllCoordinates ==
    (-1 .. ic.numChannels) \X (-1 .. ic.numRanks) \X (-1 .. ic.numDPUs)

\* the coordinates the calls of a run are handed: those of the DPUs and, as in
\* TestInvalidCoordinates, one triple with a channel, one with a rank and one with
\* a DPU out of range
Coordinates ==
    ValidCoordinates \cup {<<ic.numChannels, 0, 0>>, <<0, ic.numRanks, 0>>, <<0, 0, -1>>}

\* the requests waiting in the queues of i
Queued(i) ==
    LET RECURSIVE Sum(_)
        Sum(C) == IF C = {} THEN 0
                  ELSE LET c == CHOOSE x \in C : TRUE
                       IN  Len(i.transferQueues[c]) + Sum(C \ {c})
    IN  Sum(DOMAIN i.transferQueues)

\* ic.Write(channelID, rankID, dpuID, data)
WriteCall ==
    /\ \E key \in Coordinates : \E data \in CallerSlices :
          LET res == InterconnectWrite(CoarseWorld, key[1], key[2], key[3], data)
          IN  /\ res.w.ic.totalTransfers <= MaxCoarseTransfers
              /\ ic' = res.w.ic
              /\ heap' = Reachable(res.w, CallerSlices)
              /\ ret' = Ret("Write", res.err, -1, res.err = "none")
    /\ out' = NilSlice
    /\ UNCHANGED <<meshVars, switchVars, partitionVars, contextVars, bt, ring, rs, arg>>

\* ic.Read(srcChannelID, srcRankID, srcDpuID)
ReadCall ==
    /\ \E key \in Coordinates :
          LET res == InterconnectRead(CoarseWorld, key[1], key[2], key[3])
          IN  /\ ic' = res.w.ic
              /\ heap' = Reachable(res.w, CallerSlices \cup {res.data})
              /\ ret' = Ret("Read", res.err, -1, res.err = "none")
              /\ out' = res.data
    /\ UNCHANGED <<meshVars, switchVars, partitionVars, contextVars, bt, ring, rs, arg>>

\* the source and the destination of the requests of a run: at most one of them is
\* out of range
TransferPairs ==
    (ValidCoordinates \X ValidCoordinates)
        \cup ((Coordinates \ ValidCoordinates) \X {<<0, 0, 0>>})
        \cup ({<<0, 0, 0>>} \X (Coordinates \ ValidCoordinates))

\* ic.Transfer(req), while at most maxQueued requests wait
TransferUpTo(maxQueued) ==
    /\ \E pair \in TransferPairs : \E data \in CallerSlices :
          LET res == InterconnectTransfer(CoarseWorld, TransferRequest(pair[1], pair[2], data))
          IN  /\ Queued(res.w.ic) <= maxQueued
              /\ ic' = res.w.ic
              /\ heap' = Reachable(res.w, CallerSlices)
              /\ ret' = Ret("Transfer", res.err, -1, res.err = "none")
    /\ out' = NilSlice
    /\ UNCHANGED <<meshVars, switchVars, partitionVars, contextVars, bt, ring, rs, arg>>

TransferCall == TransferUpTo(MaxPending)

\* ic.Cycle()
CoarseCycleCall ==
    /\ ic.cycles < MaxCoarseCycles
    /\ \E w \in InterconnectCycle(CoarseWorld) :
          /\ w.ic.totalTransfers <= MaxCoarseTransfers
          /\ ic' = w.ic
          /\ heap' = Reachable(w, CallerSlices)
    /\ ret' = Ret("Cycle", "none", -1, TRUE)
    /\ out' = NilSlice
    /\ UNCHANGED <<meshVars, switchVars, partitionVars, contextVars, bt, ring, rs, arg>>

\* ic.Clear(channelID, rankID, dpuID)
ClearCall ==
    /\ \E key \in Coordinates :
          LET w == InterconnectClear(CoarseWorld, key[1], key[2], key[3])
          IN  /\ ic' = w.ic
              /\ heap' = Reachable(w, CallerSlices)
    /\ ret' = Ret("Clear", "none", -1, TRUE)
    /\ out' = NilSlice
    /\ UNCHANGED <<meshVars, switchVars, partitionVars, contextVars, bt, ring, rs, arg>>

\* the caller writes into an array it holds: slice[0] = byte
SetByte ==
    /\ \E slice \in Held : \E byte \in ByteValues \ {heap[slice][1]} :
          heap' = [heap EXCEPT ![slice][1] = byte]
    /\ ret' = Ret("SetByte", "none", -1, TRUE)
    /\ UNCHANGED <<meshVars, switchVars, partitionVars, contextVars, bt, ring, rs, arg, ic, out>>

CoarseNext == WriteCall \/ ReadCall \/ TransferCall \/ ClearCall \/ SetByte

SpecInterconnect == CoarseInit /\ [][CoarseNext]_vars

\* ------------------------------------------------------ the queued transfers
\* interconnect_test.go (TestTransferRequest, TestCycleProcessing): requests are
\* queued and retired, and the caller reads and goes on using its arrays
QueueTransfer == TransferUpTo(MaxQueued)

TransferNext == QueueTransfer \/ CoarseCycleCall \/ ReadCall \/ SetByte

SpecTransfer == CoarseInit /\ [][TransferNext]_vars

\* ------------------------------------------------------ concurrent writers
\* interconnect_test.go (TestMultiDPUTransfer): one goroutine a DPU calls ic.Write
\* on the key of its DPU with a payload of its own.  Read takes the same mutex for
\* reading, so one more goroutine calls ic.Read meanwhile.  Every goroutine runs
\* the statements of its method one at a time, and the scheduler may switch
\* between any two of them.
Writers == 1 .. MaxWriters

\* the goroutine that reads
Reader == MaxWriters + 1

\* the key writer t writes to, and the array it hands to Write: t bytes t
WriterKey(t) == <<t - 1, 0, 0>>

WriterPayloads == [t \in Writers |-> [n \in 1 .. t |-> t]]

\* a context about to call op on key with data
Context(op, key, data) ==
    [op |-> op, pc |-> "call", key |-> key, data |-> data, tmp |-> 0, err |-> "none",
     bytes |-> <<>>]

\* the Interconnect the goroutines start on: fresh, or with the last writer's bytes
\* under the key of the first
WriterWorlds ==
    LET fresh == [ic |-> InterconnectInit(MaxWriters, 1, 1, 1024), heap |-> WriterPayloads]
    IN  {fresh, InterconnectWrite(fresh, 0, 0, 0, MaxWriters).w}

WritersInit ==
    /\ mn = MeshInit(1, 1, XY_ROUTING)
    /\ packets = <<>>
    /\ log = {}
    /\ fewer = 0
    /\ router = RouterInit(0, 0, XY_ROUTING)
    /\ cs = CrossbarInit(1, 1)
    /\ ics = InterChipInit(1, 1, 1)
    /\ dq = ZeroPartition
    /\ bt = BroadcastInit(1)
    /\ ring = RingInit(1)
    /\ rs = ReduceScatterInit(1)
    /\ \E w \in WriterWorlds :
          /\ ic = w.ic
          /\ heap = w.heap
          /\ arg = <<w.ic.totalTransfers, w.ic.totalBytesTransferred>>
    /\ out = NilSlice
    /\ \E key \in {WriterKey(t) : t \in Writers} :
          threads = [t \in Writers \cup {Reader} |->
                        IF t = Reader THEN Context("Read", key, NilSlice)
                        ELSE Context("Write", WriterKey(t), t)]
    /\ mu = FreeMutex
    /\ ret = Ret("Init", "none", -1, TRUE)

\* what a step of a goroutine of the Interconnect leaves alone
WritersFrame ==
    UNCHANGED <<meshVars, switchVars, partitionVars, bt, ring, rs, arg, out, ret>>

\* context t is at pc in a call of op
At(t, op, pc) == threads[t].op = op /\ threads[t].pc = pc

\* context t goes on at pc
Goto(t, pc) == threads' = [threads EXCEPT ![t].pc = pc]

\* ic.mu.Lock() / defer ic.mu.Unlock() of Write
WriteLock(t) ==
    /\ At(t, "Write", "call")
    /\ CanLock(mu)
    /\ mu' = Lock(mu, t)
    /\ Goto(t, "validate")
    /\ UNCHANGED <<ic, heap>>
    /\ WritersFrame

\* if err := ic.validateDPUCoordinates(...); err != nil { return err }
WriteValidate(t) ==
    /\ At(t, "Write", "validate")
    /\ LET key == threads[t].key
           err == validateDPUCoordinates(ic, key[1], key[2], key[3])
       IN  threads' = [threads EXCEPT ![t].err = err,
                                      ![t].pc = IF err = "none" THEN "store" ELSE "unlock"]
    /\ UNCHANGED <<ic, heap, mu>>
    /\ WritersFrame

\* ic.sharedBuffer[key] = make([]byte, len(data)); copy(ic.sharedBuffer[key], data)
WriteStore(t) ==
    /\ At(t, "Write", "store")
    /\ LET key == threads[t].key
           copy == SliceOfKey(ic, key)
       IN  /\ ic' = [ic EXCEPT !.sharedBuffer = Store(@, key, copy)]
           /\ heap' = Store(heap, copy, heap[threads[t].data])
    /\ Goto(t, "load transfers")
    /\ UNCHANGED mu
    /\ WritersFrame

\* ic.totalTransfers++: the load
WriteLoadTransfers(t) ==
    /\ At(t, "Write", "load transfers")
    /\ threads' = [threads EXCEPT ![t].tmp = ic.totalTransfers, ![t].pc = "store transfers"]
    /\ UNCHANGED <<ic, heap, mu>>
    /\ WritersFrame

\* ic.totalTransfers++: the store
WriteStoreTransfers(t) ==
    /\ At(t, "Write", "store transfers")
    /\ ic' = [ic EXCEPT !.totalTransfers = threads[t].tmp + 1]
    /\ Goto(t, "load bytes")
    /\ UNCHANGED <<heap, mu>>
    /\ WritersFrame

\* ic.totalBytesTransferred += int64(len(data)): the load
WriteLoadBytes(t) ==
    /\ At(t, "Write", "load bytes")
    /\ threads' = [threads EXCEPT ![t].tmp = ic.totalBytesTransferred, ![t].pc = "store bytes"]
    /\ UNCHANGED <<ic, heap, mu>>
    /\ WritersFrame

\* ic.totalBytesTransferred += int64(len(data)): the store
WriteStoreBytes(t) ==
    /\ At(t, "Write", "store bytes")
    /\ ic' = [ic EXCEPT !.totalBytesTransferred = threads[t].tmp + Len(heap[threads[t].data])]
    /\ Goto(t, "unlock")
    /\ UNCHANGED <<heap, mu>>
    /\ WritersFrame

\* return: the deferred ic.mu.Unlock()
WriteUnlock(t) ==
    /\ At(t, "Write", "unlock")
    /\ mu' = Unlock(mu, t)
    /\ Goto(t, "done")
    /\ UNCHANGED <<ic, heap>>
    /\ WritersFrame

\* ic.mu.RLock() / defer ic.mu.RUnlock() of Read
ReadRLock(t) ==
    /\ At(t, "Read", "call")
    /\ CanRLock(mu)
    /\ mu' = RLock(mu, t)
    /\ Goto(t, "read")
    /\ UNCHANGED <<ic, heap>>
    /\ WritersFrame

\* the body of Read: the range check, the lookup and the copy
ReadBody(t) ==
    /\ At(t, "Read", "read")
    /\ LET got == ReadBytes([ic |-> ic, heap |-> heap], threads[t].key)
       IN  threads' = [threads EXCEPT ![t].err = got.err, ![t].bytes = got.bytes,
                                      ![t].pc = "unlock"]
    /\ UNCHANGED <<ic, heap, mu>>
    /\ WritersFrame

\* return: the deferred ic.mu.RUnlock()
ReadRUnlock(t) ==
    /\ At(t, "Read", "unlock")
    /\ mu' = RUnlock(mu, t)
    /\ Goto(t, "done")
    /\ UNCHANGED <<ic, heap>>
    /\ WritersFrame

WritersNext ==
    \E t \in DOMAIN threads :
        \/ WriteLock(t) \/ WriteValidate(t) \/ WriteStore(t)
        \/ WriteLoadTransfers(t) \/ WriteStoreTransfers(t)
        \/ WriteLoadBytes(t) \/ WriteStoreBytes(t) \/ WriteUnlock(t)
        \/ ReadRLock(t) \/ ReadBody(t) \/ ReadRUnlock(t)

SpecWriters == WritersInit /\ [][WritersNext]_vars

\* ------------------------------------------- contexts on one CrossbarSwitch
\* inter_chip_switch.go: the methods of CrossbarSwitch are exported and take
\* cs.mu themselves, so several contexts may call them on one switch.  Context t
\* makes one call, with input t - 1 where the method takes an input; every context
\* runs the statements of its method one at a time.
Contexts == 1 .. MaxContexts

\* a context about to call op(inputID, outputID)
CrossbarContext(op, inputID, outputID) ==
    [op |-> op, pc |-> "call", inputID |-> inputID, outputID |-> outputID, tmp |-> 0,
     result |-> <<>>]

\* the calls context t may make
CrossbarCalls(t) ==
    {CrossbarContext("Connect", t - 1, j) : j \in 0 .. 1}
        \cup {CrossbarContext(op, t - 1, NotConnected) :
                 op \in {"Disconnect", "IsConnected", "GetConnection"}}
        \cup {CrossbarContext(op, NotConnected, NotConnected) :
                 op \in {"DisconnectAll", "Cycle", "GetStatistics"}}

\* the switch the contexts start on: fresh, or with input 0 connected to output 1
ContextSwitches ==
    LET fresh == CrossbarInit(MaxContexts, 2)
    IN  {fresh, Connect(fresh, 0, 1).cs}

ContextsInit ==
    /\ mn = MeshInit(1, 1, XY_ROUTING)
    /\ packets = <<>>
    /\ log = {}
    /\ fewer = 0
    /\ router = RouterInit(0, 0, XY_ROUTING)
    /\ \E c \in ContextSwitches :
          /\ cs = c
          /\ arg = <<c>>
    /\ ics = InterChipInit(1, 1, 1)
    /\ dq = ZeroPartition
    /\ CoarseIdle
    /\ bt = BroadcastInit(1)
    /\ ring = RingInit(1)
    /\ rs = ReduceScatterInit(1)
    /\ out = <<>>
    /\ threads \in [Contexts -> UNION {CrossbarCalls(t) : t \in Contexts}]
    /\ \A t \in Contexts : threads[t] \in CrossbarCalls(t)
    /\ mu = FreeMutex
    /\ ret = Ret("Init", "none", -1, TRUE)

\* what a step of a context of the switch leaves alone
ContextsFrame ==
    UNCHANGED <<meshVars, ics, partitionVars, coarseVars, collectiveVars, ret>>

\* the methods that start with cs.mu.Lock()
LockingMethods ==
    {"Connect", "Disconnect", "IsConnected", "GetConnection", "DisconnectAll",
     "GetStatistics"}

\* cs.mu.Lock() / defer cs.mu.Unlock() at the head of a method
ContextLock(t) ==
    /\ threads[t].op \in LockingMethods
    /\ threads[t].pc = "call"
    /\ CanLock(mu)
    /\ mu' = Lock(mu, t)
    /\ Goto(t, "body")
    /\ UNCHANGED cs
    /\ ContextsFrame

\* Connect: the range checks and `if cs.reverseConnections[outputID] != -1`
ConnectCheck(t) ==
    /\ At(t, "Connect", "body")
    /\ LET found == ConnectChecks(cs, threads[t].inputID, threads[t].outputID)
       IN  threads' = [threads EXCEPT
                          ![t].pc = CASE found = "invalid" -> "unlock"
                                      [] found = "busy" -> "busy"
                                      [] OTHER -> "free",
                          ![t].result = IF found = "invalid" THEN <<FALSE>> ELSE @]
    /\ UNCHANGED <<cs, mu>>
    /\ ContextsFrame

\* Connect: cs.blockedAttempts++; return false
ConnectBusyStep(t) ==
    /\ At(t, "Connect", "busy")
    /\ cs' = ConnectBusy(cs)
    /\ threads' = [threads EXCEPT ![t].pc = "unlock", ![t].result = <<FALSE>>]
    /\ UNCHANGED mu
    /\ ContextsFrame

\* Connect: the new connection; return true
ConnectMakeStep(t) ==
    /\ At(t, "Connect", "free")
    /\ cs' = ConnectMake(cs, threads[t].inputID, threads[t].outputID)
    /\ threads' = [threads EXCEPT ![t].pc = "unlock", ![t].result = <<TRUE>>]
    /\ UNCHANGED mu
    /\ ContextsFrame

\* the body of Disconnect
DisconnectBody(t) ==
    /\ At(t, "Disconnect", "body")
    /\ cs' = Disconnect(cs, threads[t].inputID)
    /\ Goto(t, "unlock")
    /\ UNCHANGED mu
    /\ ContextsFrame

\* the body of DisconnectAll
DisconnectAllBody(t) ==
    /\ At(t, "DisconnectAll", "body")
    /\ cs' = DisconnectAll(cs)
    /\ Goto(t, "unlock")
    /\ UNCHANGED mu
    /\ ContextsFrame

\* the body of IsConnected
IsConnectedBody(t) ==
    /\ At(t, "IsConnected", "body")
    /\ threads' = [threads EXCEPT ![t].pc = "unlock",
                                  ![t].result = <<IsConnected(cs, threads[t].inputID)>>]
    /\ UNCHANGED <<cs, mu>>
    /\ ContextsFrame

\* the body of GetConnection
GetConnectionBody(t) ==
    /\ At(t, "GetConnection", "body")
    /\ threads' = [threads EXCEPT ![t].pc = "unlock",
                                  ![t].result = <<GetConnection(cs, threads[t].inputID)>>]
    /\ UNCHANGED <<cs, mu>>
    /\ ContextsFrame

\* the body of GetStatistics
GetStatisticsBody(t) ==
    /\ At(t, "GetStatistics", "body")
    /\ threads' = [threads EXCEPT ![t].pc = "unlock",
                                  ![t].result = <<CrossbarGetStatistics(cs)>>]
    /\ UNCHANGED <<cs, mu>>
    /\ ContextsFrame

\* return: the deferred cs.mu.Unlock()
ContextUnlock(t) ==
    /\ threads[t].op \in LockingMethods
    /\ threads[t].pc = "unlock"
    /\ mu' = Unlock(mu, t)
    /\ Goto(t, "done")
    /\ UNCHANGED cs
    /\ ContextsFrame

\* Cycle, cs.cycles++: the load
CycleLoad(t) ==
    /\ At(t, "Cycle", "call")
    /\ threads' = [threads EXCEPT ![t].tmp = cs.cycles, ![t].pc = "store"]
    /\ UNCHANGED <<cs, mu>>
    /\ ContextsFrame

\* Cycle, cs.cycles++: the store
CycleStore(t) ==
    /\ At(t, "Cycle", "store")
    /\ cs' = [cs EXCEPT !.cycles = threads[t].tmp + 1]
    /\ Goto(t, "done")
    /\ UNCHANGED mu
    /\ ContextsFrame

ContextsNext ==
    \E t \in DOMAIN threads :
        \/ ContextLock(t) \/ ContextUnlock(t)
        \/ ConnectCheck(t) \/ ConnectBusyStep(t) \/ ConnectMakeStep(t)
        \/ DisconnectBody(t) \/ DisconnectAllBody(t)
        \/ IsConnectedBody(t) \/ GetConnectionBody(t) \/ GetStatisticsBody(t)
        \/ CycleLoad(t) \/ CycleStore(t)

SpecContexts == ContextsInit /\ [][ContextsNext]_vars

\* ------------------------------------------------- one packet through a mesh
\* mesh_network.go: a packet alone in a width x height mesh.  The router that holds
\* it asks ComputeNextHop for the output port (TryRoutePacket) and phase 2 of
\* MeshNetwork.Cycle hands it to the neighbour on that side; router is the router
\* that holds the packet, arg the mesh's size and the packet, out the hops taken.
RouteInit ==
    /\ mn = MeshInit(1, 1, XY_ROUTING)
    /\ packets = <<>>
    /\ log = {}
    /\ fewer = 0
    /\ \E width \in 1 .. MaxSide, height \in 1 .. MaxSide :
       \E src \in Positions(width, height), dst \in Positions(width, height) :
       \E algorithm \in RoutingAlgorithm :
          /\ router = RouterInit(src[1], src[2], algorithm)
          /\ arg = <<width, height, NewPacket(src[1], 0, src[2], dst[1], 0, dst[2])>>
    /\ cs = CrossbarInit(1, 1)
    /\ ics = InterChipInit(1, 1, 1)
    /\ dq = ZeroPartition
    /\ CoarseIdle
    /\ NoContexts
    /\ bt = BroadcastInit(1)
    /\ ring = RingInit(1)
    /\ rs = ReduceScatterInit(1)
    /\ out = <<>>
    /\ ret = Ret("Init", "none", -1, TRUE)

\* the packet was put out on the LOCAL port
Delivered == out # <<>> /\ out[Len(out)] = LOCAL_DIR

\* the packet goes to the neighbour on the side ComputeNextHop chose
RouteHop ==
    /\ ~Delivered
    /\ LET d == ComputeNextHop(router, arg[3])
           pos == <<router.PositionX, router.PositionY>>
           npos == NeighbourOf(pos, d)
       IN  /\ d # LOCAL_DIR
           /\ HasNeighbour(arg[1], arg[2], pos, d)
           /\ router' = RouterInit(npos[1], npos[2], router.routingAlgorithm)
           /\ out' = Append(out, d)
    /\ UNCHANGED <<mn, packets, log, fewer, ret, switchVars, partitionVars, coarseVars,
                   contextVars, bt, ring, rs, arg>>

\* ComputeNextHop chose LOCAL: the packet leaves the mesh here
RouteDeliver ==
    /\ ~Delivered
    /\ ComputeNextHop(router, arg[3]) = LOCAL_DIR
    /\ out' = Append(out, LOCAL_DIR)
    /\ UNCHANGED <<mn, packets, log, fewer, ret, router, switchVars, partitionVars,
                   coarseVars, contextVars, bt, ring, rs, arg>>

RouteNext == RouteHop \/ RouteDeliver

SpecRoute == RouteInit /\ [][RouteNext]_vars

\* ======================================================================
\* Properties
\* ======================================================================
Abs(n) == IF n < 0 THEN -n ELSE n

\* the Manhattan distance between a packet's source and its destination
Manhattan(packet) ==
    Abs(packet.DstChannelID - packet.SrcChannelID) + Abs(packet.DstDpuID - packet.SrcDpuID)

\* a port of the mesh: <<router position, "in" or "out", direction>>
MeshPorts == (DOMAIN mn.routers) \X {"in", "out"} \X Dir

PortAt(t) ==
    IF t[2] = "in" THEN mn.routers[t[1]].InputPorts[t[3]]
    ELSE mn.routers[t[1]].OutputPorts[t[3]]

PortsHolding(p) == {t \in MeshPorts : PortAt(t).Packet = p}

OccupiedPorts == {t \in MeshPorts : PortAt(t).Occupied}

\* C1: every in-flight packet is held by exactly one port of one router, and the
\* number of occupied ports over all routers equals the size of the in-flight set.
C1_InFlightHeldByOnePort ==
    /\ \A p \in mn.activePackets : Cardinality(PortsHolding(p)) = 1
    /\ Cardinality(OccupiedPorts) = Cardinality(mn.activePackets)

\* C2: on a mesh with XY routing every accepted packet is eventually delivered: once
\* the injections have stopped, repeated Cycle calls reach a state, and stay in it,
\* where the in-flight set is empty and packets_delivered equals packets_injected.
C2_EventuallyAllDelivered ==
    <>[](IsEmpty(mn) /\ mn.totalPacketsDelivered = mn.totalPacketsInjected)

\* C3: the size of the in-flight set equals totalPacketsInjected minus
\* totalPacketsDelivered, whatever injections (accepted or refused) and cycles happened.
C3_InFlightIsInjectedMinusDelivered ==
    Cardinality(mn.activePackets) = mn.totalPacketsInjected - mn.totalPacketsDelivered

\* a refused injection happened while one packet was delivered and another in flight
C3_Witness ==
    /\ ret.op = "InjectPacket" /\ ret.err = "busy"
    /\ mn.totalPacketsDelivered >= 1
    /\ mn.activePackets # {}

\* C4: a packet leaves the in-flight set and is counted as delivered only through the
\* LOCAL output of the router at its destination coordinates: every delivery was made
\* at the packet's destination, each packet is delivered at most once, the delivered
\* counter counts exactly the deliveries, and the accepted packets that are no longer
\* in flight are exactly the delivered ones.
C4_DeliveredOnlyAtDestination ==
    /\ \A e \in log : /\ e.x = packets[e.packet].DstChannelID
                      /\ e.y = packets[e.packet].DstDpuID
    /\ \A e, f \in log : e.packet = f.packet => e = f
    /\ mn.totalPacketsDelivered = Cardinality(log)
    /\ {e.packet : e \in log} = (0 .. mn.nextPacketID - 1) \ mn.activePackets

\* a packet was delivered away from its source under WEST_FIRST routing
C4_Witness ==
    /\ mn.routingAlgorithm = WEST_FIRST
    /\ \E e \in log : Manhattan(packets[e.packet]) >= 2

\* C9: RunUntilEmpty returns true if and only if IsEmpty is true right afterwards.
C9_RunUntilEmptyIffEmpty ==
    ret.op = "RunUntilEmpty" => (ret.ok <=> IsEmpty(mn))

\* RunUntilEmpty ran out of budget with one packet delivered and another in flight
C9_Witness ==
    /\ ret.op = "RunUntilEmpty" /\ ~ret.ok
    /\ mn.totalPacketsDelivered >= 1

\* the grid and the four points one step off its origin row and column
C10_Points ==
    Positions(mn.width, mn.height)
        \cup {<<-1, 0>>, <<mn.width, 0>>, <<0, -1>>, <<0, mn.height>>}

\* C10: InjectPacket fails exactly when the source or the destination lies outside
\* the grid or the LOCAL input port of the source router is occupied; a failing call
\* returns no id and leaves the whole network as it was.  The call is taken from every
\* reachable state, with source and destination drawn from the grid and from the
\* points one step below and one step beyond it in either coordinate.  The state
\* right after a refused call has the network of the state before the call, where
\* the calls are already taken: the calls are not taken from it once more.
C10_InjectFailsCleanly ==
    ret.err = "none" =>
    \A src \in C10_Points, dst \in C10_Points :
        LET res == InjectPacket(World, src[1], src[2], dst[1], dst[2])
            outside == \/ src[1] < 0 \/ src[1] >= mn.width \/ src[2] < 0 \/ src[2] >= mn.height
                       \/ dst[1] < 0 \/ dst[1] >= mn.width \/ dst[2] < 0 \/ dst[2] >= mn.height
            busy == ~outside /\ mn.routers[src].InputPorts[LOCAL_DIR].Occupied
        IN  /\ res.err # "none" <=> (outside \/ busy)
            /\ res.err # "none" => (res.id = -1 /\ res.w = World)
            /\ res.err = "none" => (res.id = mn.nextPacketID /\ res.w # World)

\* an injection was refused because the LOCAL input port was occupied
C10_Witness ==
    /\ ret.op = "InjectPacket" /\ ret.err = "busy"
    /\ mn.activePackets # {}

\* ------------------------------------------------------------ single packet
\* C8: a single packet injected into an otherwise empty mesh is delivered with a
\* recorded latency of exactly its Manhattan distance: it is delivered by the time the
\* cycle counter exceeds its timestamp by that distance, the recorded latency (and so
\* the latency total) is the distance, and afterwards delivered = 1 and in-flight = 0.
C8_SingleLatencyIsManhattan ==
    mn.nextPacketID = 1 =>
        LET d == Manhattan(packets[0])
        IN  /\ mn.cycles > packets[0].Timestamp + d => log # {}
            /\ \A e \in log : /\ e.latency = d
                              /\ mn.totalPacketLatency = d
                              /\ mn.totalPacketsDelivered = 1
                              /\ mn.activePackets = {}

\* the packet from (0,0) to (3,3) was delivered with latency 6
C8_Witness ==
    \E e \in log : /\ e.latency = 6
                   /\ packets[e.packet].SrcChannelID = 0 /\ packets[e.packet].SrcDpuID = 0
                   /\ packets[e.packet].DstChannelID = 3 /\ packets[e.packet].DstDpuID = 3

\* --------------------------------------------------------- router on its own
\* the occupied input ports of r whose packets ComputeNextHop sends to output d
Contenders(r, pk, d) ==
    {i \in Dir : /\ r.InputPorts[i].Occupied
                 /\ ComputeNextHop(r, pk[r.InputPorts[i].Packet]) = d}

\* the member of S that comes first in the order NORTH, SOUTH, EAST, WEST, LOCAL
FirstInEnum(S) == CHOOSE i \in S : \A j \in S : i <= j

\* the step is a Router.Cycle call on the router on its own
IsRouterCycleStep == router'.cycles = router.cycles + 1

\* C5: when two or more occupied input ports compute the same output direction, the
\* packet moved to that output is the one of the input port that comes first in the
\* order NORTH, SOUTH, EAST, WEST, LOCAL; the later contenders stay where they are.
C5_FirstInEnumOrderWins ==
    [][IsRouterCycleStep =>
        \A d \in Dir :
            LET c == Contenders(router, packets, d)
            IN  Cardinality(c) >= 2 =>
                    /\ router'.OutputPorts[d].Packet = router.InputPorts[FirstInEnum(c)].Packet
                    /\ \A i \in c \ {FirstInEnum(c)} : router'.InputPorts[i] = router.InputPorts[i]
      ]_vars

\* the table of the claim: the output direction for the offsets dx, dy
ExpectedHop(algorithm, dx, dy) ==
    IF dx = 0 /\ dy = 0 THEN LOCAL_DIR
    ELSE IF algorithm = XY_ROUTING
         THEN (IF dx > 0 THEN EAST ELSE IF dx < 0 THEN WEST
               ELSE IF dy > 0 THEN NORTH ELSE SOUTH)
    ELSE IF algorithm = YX_ROUTING
         THEN (IF dy > 0 THEN NORTH ELSE IF dy < 0 THEN SOUTH
               ELSE IF dx > 0 THEN EAST ELSE WEST)
    ELSE (IF dx < 0 THEN WEST
          ELSE IF dy > 0 THEN NORTH ELSE IF dy < 0 THEN SOUTH ELSE EAST)

\* C6: ComputeNextHop returns LOCAL iff dx = 0 and dy = 0 and otherwise follows the
\* table of XY, YX and WEST_FIRST: for every router position and destination (looked
\* up once, at the start), for every packet waiting in an input port, and every
\* packet Router.Cycle moved sits in the output port the table names.
C6_NextHopTable ==
    /\ ret.op = "Init" =>
          \A algorithm \in RoutingAlgorithm :
          \A posX \in RouterCoords, posY \in RouterCoords,
             dstX \in RouterCoords, dstY \in RouterCoords :
              LET hop == ComputeNextHop(RouterInit(posX, posY, algorithm),
                                        NewPacket(0, 0, 0, dstX, 0, dstY))
              IN  /\ hop = ExpectedHop(algorithm, dstX - posX, dstY - posY)
                  /\ hop = LOCAL_DIR <=> (dstX = posX /\ dstY = posY)
    /\ \A i \in Dir :
           router.InputPorts[i].Occupied =>
               LET packet == packets[router.InputPorts[i].Packet]
               IN  ComputeNextHop(router, packet)
                       = ExpectedHop(router.routingAlgorithm,
                                     packet.DstChannelID - router.PositionX,
                                     packet.DstDpuID - router.PositionY)
    /\ \A d \in Dir :
           router.OutputPorts[d].Occupied =>
               LET packet == packets[router.OutputPorts[d].Packet]
               IN  d = ExpectedHop(router.routingAlgorithm,
                                   packet.DstChannelID - router.PositionX,
                                   packet.DstDpuID - router.PositionY)

\* under WEST_FIRST a packet that has to go east and north was moved to NORTH
C6_Witness ==
    /\ router.routingAlgorithm = WEST_FIRST
    /\ router.OutputPorts[NORTH].Occupied
    /\ packets[router.OutputPorts[NORTH].Packet].DstChannelID > router.PositionX

\* C7: backpressure.  When two (or more) occupied input ports route to the same
\* output, one Router.Cycle moves exactly one of them to that output, frees its input
\* and counts its hop; every other contender stays in its own input port, occupied
\* and unchanged, its hop count as before; packetsBlocked grows by at least 1.
C7_Backpressure ==
    [][IsRouterCycleStep =>
        \A d \in Dir :
            LET c == Contenders(router, packets, d)
            IN  Cardinality(c) >= 2 =>
                    /\ \E win \in c :
                          LET p == router.InputPorts[win].Packet
                          IN  /\ router'.OutputPorts[d] = [Occupied |-> TRUE, Packet |-> p]
                              /\ router'.InputPorts[win] = EmptyPort
                              /\ packets'[p].HopCount = packets[p].HopCount + 1
                              /\ \A i \in c \ {win} :
                                    /\ router'.InputPorts[i] = router.InputPorts[i]
                                    /\ router'.InputPorts[i].Occupied
                                    /\ packets'[router.InputPorts[i].Packet]
                                           = packets[router.InputPorts[i].Packet]
                    /\ router'.packetsBlocked >= router.packetsBlocked + 1
      ]_vars

\* after a Router.Cycle one packet sits in an output port and another, which wants
\* the same output, is still in its input port, counted as blocked
C7_Witness ==
    /\ ret.op = "Router.Cycle"
    /\ router.packetsBlocked >= 1
    /\ \E i \in Dir, d \in Dir :
          /\ router.InputPorts[i].Occupied
          /\ router.OutputPorts[d].Occupied
          /\ ComputeNextHop(router, packets[router.InputPorts[i].Packet]) = d
          /\ packets[router.InputPorts[i].Packet].HopCount = 0
          /\ packets[router.OutputPorts[d].Packet].HopCount = 1

\* ------------------------------------------------- RunUntilEmpty and Cycle
\* the worlds n direct Cycle calls can leave, starting from any world of ws
RECURSIVE CycleTimes(_, _)
CycleTimes(ws, n) ==
    IF n = 0 THEN ws ELSE CycleTimes(UNION {MeshCycle(w) : w \in ws}, n - 1)

\* the worlds left by Cycle calls made as long as packets are in flight, n at most
RECURSIVE CycleWhileBusy(_, _)
CycleWhileBusy(ws, n) ==
    IF n = 0 THEN ws
    ELSE CycleWhileBusy({w \in ws : IsEmpty(w.mn)}
                            \cup UNION {MeshCycle(w) : w \in {v \in ws : ~IsEmpty(v.mn)}},
                        n - 1)

\* RunUntilEmpty(m) is min(m, k) Cycle steps and nothing else, k being the number
\* of cycles after which the in-flight set is first empty; a false return leaves
\* the world of m direct Cycle calls, on which Cycle goes on counting
RunUntilEmptyOnlyCycles ==
    \A m \in 0 .. MaxRun :
        LET results == RunUntilEmpty(World, m)
        IN  /\ {r.w : r \in results} = CycleWhileBusy({World}, m)
            /\ \A r \in results :
                  /\ r.w.mn.cycles - mn.cycles <= m
                  /\ r.ok => IsEmpty(r.w.mn)
                  /\ ~r.ok => /\ r.w \in CycleTimes({World}, m)
                              /\ r.w.mn.cycles = mn.cycles + m
                              /\ \A v \in MeshCycle(r.w) : v.mn.cycles = r.w.mn.cycles + 1

\* after a false return every packet still in flight is in a port, where Cycle
\* finds it: Cycle moves the packets of the ports and no other
RemainingPacketsInPorts ==
    (ret.op = "RunUntilEmpty" /\ ~ret.ok) =>
        \A p \in mn.activePackets : PortsHolding(p) # {}

\* C11: RunUntilEmpty(m) changes the network only by Cycle steps, min(m, k) of them,
\* so the cycle counter advances by at most m; a false return leaves the state of m
\* direct Cycle calls, and further Cycle calls go on advancing the remaining packets
\* (each of them is in a port for Cycle to move).
C11_RunUntilEmptyIsCycles ==
    RunUntilEmptyOnlyCycles /\ RemainingPacketsInPorts

\* ------------------------------------------------------------- hop counts
\* C12: every delivered packet has a hop count of at least the Manhattan distance
\* between its source and its destination, whatever contention it met on the way.
C12_HopCountAtLeastManhattan ==
    \A e \in log : packets[e.packet].HopCount >= Manhattan(packets[e.packet])

\* a packet that had to travel and lost an arbitration on its way was delivered
C12_Witness ==
    \E e \in log : /\ Manhattan(packets[e.packet]) >= 1
                   /\ e.latency > Manhattan(packets[e.packet])

\* --------------------------------------------------------- port occupancy
\* C13: after any sequence of InjectPacket and Cycle calls, every input and output
\* port of every router has its occupied flag set iff its packet reference is non-nil.
C13_OccupiedIffPacket ==
    \A t \in MeshPorts : PortAt(t).Occupied <=> PortAt(t).Packet # NilPacket

\* a Cycle handed a packet over to a neighbour (an input port holds a packet that
\* made a hop) after another packet was delivered
C13_Witness ==
    /\ ret.op = "Cycle"
    /\ mn.totalPacketsDelivered >= 1
    /\ \E t \in MeshPorts : /\ t[2] = "in" /\ PortAt(t).Occupied
                            /\ packets[PortAt(t).Packet].HopCount >= 1

\* ------------------------------------------------------ when delivery shows
\* C14: a delivery shows in the network cycle after the one whose router phase put
\* the packet in the LOCAL output port: a step that delivers a packet (counter and
\* in-flight set change) starts with that packet in the LOCAL output of its
\* destination router.
C14_DeliveredInFollowingCycle ==
    [][\A e \in log' \ log :
          /\ mn.routers[<<e.x, e.y>>].OutputPorts[LOCAL_DIR].Occupied
          /\ mn.routers[<<e.x, e.y>>].OutputPorts[LOCAL_DIR].Packet = e.packet
      ]_vars

\* ------------------------------------------------------------ determinism
\* C15: MeshNetwork.Cycle is deterministic: from one network state one Cycle call
\* can leave one next state only (ports, packets, counters).
C15_CycleDeterministic ==
    Cardinality(MeshCycle(World)) = 1

\* --------------------------------------------------------------- crossbar
Inputs == 0 .. cs.numInputs - 1
Outputs == 0 .. cs.numOutputs - 1

\* the inputs of crossbar c that hold an output
Connected(c) == {i \in DOMAIN c.connections : c.connections[i] # NotConnected}

\* C16: after any sequence of Connect, Disconnect and DisconnectAll calls, with
\* arguments in or out of range, connections[i] = j iff reverseConnections[j] = i
\* for all inputs i and outputs j; so every output is claimed by at most one input.
C16_CrossbarTablesAgree ==
    /\ \A i \in Inputs, j \in Outputs :
           cs.connections[i] = j <=> cs.reverseConnections[j] = i
    /\ \A j \in Outputs : Cardinality({i \in Inputs : cs.connections[i] = j}) <= 1

\* three connections were made and one attempt blocked, and two inputs are still
\* connected: a connection was released (by Disconnect, DisconnectAll or Connect)
C16_Witness ==
    /\ cs.totalSwitches >= 3 /\ cs.blockedAttempts >= 1
    /\ Cardinality(Connected(cs)) = 2

\* C17: Connect(i, j) with i and j in range succeeds iff output j is unclaimed at
\* the call; when j is claimed it returns false, adds exactly 1 to blockedAttempts
\* and leaves the tables and totalSwitches as they were; and once the holder of j
\* is disconnected, a Connect to j by another input succeeds.
C17_ConnectSucceedsIffUnclaimed ==
    \A i \in Inputs, j \in Outputs :
        LET res == Connect(cs, i, j)
            holder == cs.reverseConnections[j]
        IN  /\ res.ok <=> holder = NotConnected
            /\ ~res.ok => res.cs = [cs EXCEPT !.blockedAttempts = @ + 1]
            /\ (holder # NotConnected /\ i # holder) => Connect(Disconnect(res.cs, holder), i, j).ok

\* the scenario of the tests on the 4x4 crossbar: Connect(0, 1); Connect(2, 1) is
\* blocked; Disconnect(0); Connect(2, 1) succeeds
C17_Witness ==
    /\ ret.op = "Connect" /\ ret.ok
    /\ cs.numInputs = 4
    /\ cs.totalSwitches = 2 /\ cs.blockedAttempts = 1
    /\ cs.connections[2] = 1 /\ Connected(cs) = {2}

\* C18: latest write wins.  When input i holds output k and Connect(i, j) is called
\* with j # k and j unclaimed, the call succeeds, k becomes unclaimed, i is connected
\* to j only, totalSwitches grows by 1 and no connection of another input changes.
C18_LatestWriteWins ==
    \A i \in Inputs, j \in Outputs :
        LET k == cs.connections[i]
            res == Connect(cs, i, j)
        IN  (k # NotConnected /\ j # k /\ cs.reverseConnections[j] = NotConnected) =>
                /\ res.ok
                /\ res.cs.reverseConnections[k] = NotConnected
                /\ res.cs.connections[i] = j
                /\ {o \in Outputs : res.cs.reverseConnections[o] = i} = {j}
                /\ res.cs.totalSwitches = cs.totalSwitches + 1
                /\ res.cs.blockedAttempts = cs.blockedAttempts
                /\ \A h \in Inputs \ {i} : res.cs.connections[h] = cs.connections[h]
                /\ \A o \in Outputs \ {j, k} :
                       res.cs.reverseConnections[o] = cs.reverseConnections[o]

\* a successful Connect left two inputs connected, and one of them can move to a
\* free output while the other holds its own
C18_Witness ==
    /\ ret.op = "Connect" /\ ret.ok
    /\ Cardinality(Connected(cs)) = 2
    /\ cs.totalSwitches >= 3
    /\ \E i \in Connected(cs), j \in Outputs :
          /\ cs.reverseConnections[j] = NotConnected
          /\ Connect(cs, i, j).cs.connections[i] = j

\* the two connection tables of a crossbar
Tables(c) == <<c.connections, c.reverseConnections>>

\* C19, as stated: for every crossbar state and every in-range i and j, Connect(i, j)
\* followed by Disconnect(i) leaves both connection tables as they were before.
C19_ConnectDisconnectRestores ==
    \A i \in Inputs, j \in Outputs :
        Tables(Disconnect(Connect(cs, i, j).cs, i)) = Tables(cs)

\* C19, amended: for every crossbar state in which input i holds no output, and
\* every in-range j, Connect(i, j) followed by Disconnect(i) leaves both connection
\* tables as they were before; when i holds an output, the sequence leaves i
\* unconnected and that output unclaimed, and changes nothing else in the tables.
C19_ConnectDisconnectRestoresUnconnected ==
    \A i \in Inputs, j \in Outputs :
        LET after == Disconnect(Connect(cs, i, j).cs, i)
        IN  IF cs.connections[i] = NotConnected
            THEN Tables(after) = Tables(cs)
            ELSE Tables(after) = Tables(Disconnect(cs, i))

\* a Disconnect was called on a crossbar that has a connected input, an unconnected
\* input and a free output: the sequence meets both cases, and Connect succeeds in it
C19_Witness ==
    /\ ret.op = "Disconnect"
    /\ cs.totalSwitches >= 2
    /\ \E i \in Inputs \ Connected(cs), h \in Connected(cs), j \in Outputs :
          /\ Connect(cs, i, j).ok
          /\ Connect(cs, h, j).ok

\* ------------------------------------------------------ inter-chip switch
Chips == 0 .. ics.numChips - 1
Channels == 0 .. ics.dqPartition.numChannels - 1

\* C20: at most one active transfer targets a given destination chip, after any
\* sequence of StartTransfer, CompleteTransfer and Cycle calls; and while a transfer
\* to chip d is active, every StartTransfer to d fails with the crossbar-blocked error.
C20_OneTransferPerDestination ==
    /\ \A t, u \in DOMAIN ics.activeTransfers :
           t # u => ics.activeTransfers[t].DstChipID # ics.activeTransfers[u].DstChipID
    /\ \A t \in DOMAIN ics.activeTransfers :
       \A srcChip \in Chips, channelID \in Channels, dataLen \in DataLens :
           StartTransfer(ics, srcChip, ics.activeTransfers[t].DstChipID,
                         channelID, dataLen).err = "crossbar blocked"

\* the ids handed to CompleteTransfer: every id a run can have given out, one
\* below and one beyond
TransferIDs == -1 .. ics.nextTransferID

\* C21: CompleteTransfer(id) succeeds exactly when id is an active transfer; it
\* then removes that entry (and no other) and disconnects the crossbar input of the
\* transfer's source chip; for an unknown id, an id completed before included, it
\* returns transfer-not-found and leaves the transfer table and the crossbar alone.
C21_CompleteTransferIffActive ==
    \A id \in TransferIDs :
        LET res == CompleteTransfer(ics, id)
            active == ics.activeTransfers
        IN  /\ res.err = "none" <=> id \in DOMAIN active
            /\ res.err = "none" =>
                  /\ DOMAIN res.ics.activeTransfers = DOMAIN active \ {id}
                  /\ \A t \in DOMAIN active \ {id} : res.ics.activeTransfers[t] = active[t]
                  /\ res.ics.crossbar = Disconnect(ics.crossbar, active[id].SrcChipID)
                  /\ res.ics.crossbar.connections[active[id].SrcChipID] = NotConnected
            /\ res.err # "none" =>
                  /\ res.err = "transfer not found"
                  /\ res.ics = ics

\* a transfer was completed a second time, while another transfer is active
C21_Witness ==
    /\ ret.op = "CompleteTransfer" /\ ret.err = "transfer not found"
    /\ ret.id < ics.nextTransferID
    /\ DOMAIN ics.activeTransfers # {}

\* C22: a successful StartTransfer returns a fresh id (the ids strictly increase
\* and none is used twice) and records startCycle = the current cycle; a failing one
\* (src, dst or channel out of range, crossbar blocked) consumes no id and leaves the
\* transfer table, totalTransfers, totalBytes and the crossbar connections unchanged.
C22_StartTransferFreshId ==
    /\ \A t \in DOMAIN ics.activeTransfers :
           /\ t < ics.nextTransferID
           /\ ics.activeTransfers[t].TransferID = t
    /\ \A srcChip \in -1 .. ics.numChips, dstChip \in -1 .. ics.numChips,
          channelID \in -1 .. ics.dqPartition.numChannels, dataLen \in DataLens :
           LET res == StartTransfer(ics, srcChip, dstChip, channelID, dataLen)
           IN  /\ res.err = "none" =>
                     /\ res.id = ics.nextTransferID
                     /\ res.id \notin DOMAIN ics.activeTransfers
                     /\ res.ics.nextTransferID = res.id + 1
                     /\ res.ics.activeTransfers[res.id].StartCycle = ics.cycles
               /\ res.err # "none" =>
                     /\ res.id = -1
                     /\ res.ics.nextTransferID = ics.nextTransferID
                     /\ res.ics.activeTransfers = ics.activeTransfers
                     /\ res.ics.totalTransfers = ics.totalTransfers
                     /\ res.ics.totalBytes = ics.totalBytes
                     /\ Tables(res.ics.crossbar) = Tables(ics.crossbar)

\* a StartTransfer was blocked after a cycle went by, an earlier transfer was
\* completed, and the transfer still active has the id after it
C22_Witness ==
    /\ ret.op = "StartTransfer" /\ ret.err = "crossbar blocked"
    /\ ics.cycles >= 1
    /\ ics.nextTransferID = 2
    /\ DOMAIN ics.activeTransfers = {1}

\* T is a multiple of C
IsMultiple(T, C) == \E k \in -(MaxPins + 1) .. (MaxPins + 1) : T = k * C

\* the pins the specification gives channel c of a partition of T pins into C
SpecifiedPins(T, C, c) == {pin \in 0 .. T - 1 : c * T <= pin * C /\ pin * C < (c + 1) * T}

\* what C23 asks of one call Init(T, C) on the partition p
InitAsSpecified(p, T, C) ==
    LET res == DQPinPartitionInit(p, T, C)
    IN  /\ ~IsMultiple(T, C) => res.err = "not evenly divisible" /\ res.dq = p
        /\ IsMultiple(T, C) =>
              /\ res.err = "none"
              /\ DOMAIN res.dq.channelPins = 0 .. C - 1
              /\ \A c \in 0 .. C - 1 :
                     /\ GetChannelPins(res.dq, c) = SpecifiedPins(T, C, c)
                     /\ Len(res.dq.channelPins[c]) = T \div C
                     /\ \A i \in 1 .. Len(res.dq.channelPins[c]) - 1 :
                            res.dq.channelPins[c][i + 1] = res.dq.channelPins[c][i] + 1
              /\ \A c, d \in 0 .. C - 1 :
                     c # d => GetChannelPins(res.dq, c) \cap GetChannelPins(res.dq, d) = {}
              /\ UNION {GetChannelPins(res.dq, c) : c \in 0 .. C - 1} = 0 .. T - 1

\* C23: DQPinPartition.Init(T, C) returns an error and assigns nothing unless T is
\* a multiple of C; on success channel c owns exactly the pins c*T/C .. (c+1)*T/C - 1:
\* contiguous, pairwise disjoint, each of size T/C, together covering 0 .. T-1.
C23_InitPartitionsPins ==
    \A T \in PinCounts, C \in ChannelCounts : InitAsSpecified(dq, T, C)

\* the same, for a positive number of channels and no negative pin count
PartitionOfPositiveCounts ==
    \A T \in 0 .. MaxPins, C \in 1 .. MaxChannels : InitAsSpecified(dq, T, C)

\* a partition was refused for T not a multiple of C, on a partition that an
\* earlier Init had filled
PartitionRefusedAfterInit ==
    /\ ret.op = "DQPinPartition.Init" /\ ret.err = "not evenly divisible"
    /\ dq.numChannels > 1 /\ dq.pinsPerChannel > 1

\* the mesh holds no packet: none is active and every port of every router is free
IdleMesh ==
    /\ IsEmpty(mn)
    /\ \A pos \in Positions(mn.width, mn.height), d \in Dir :
           /\ ~mn.routers[pos].InputPorts[d].Occupied
           /\ ~mn.routers[pos].OutputPorts[d].Occupied

Nodes == 0 .. bt.numNodes - 1

\* C24: Broadcast(0, data) on an idle mesh that holds the N nodes goes level by
\* level and returns success with every one of the N nodes marked as having
\* received the data, for every N >= 1.
C24_BroadcastReachesAll ==
    IdleMesh =>
        \A res \in Broadcast(World, bt, 0) :
            /\ res.err = "none"
            /\ \A n \in Nodes : res.received[n]

\* C25: BroadcastSimple(0, data) on N nodes returns success with every node
\* marked as holding the data, and adds exactly N - 1 to totalMessages.
C25_BroadcastSimpleFromRoot ==
    /\ \A res \in BroadcastSimple(World, bt, 0) :
           /\ res.err = "none"
           /\ \A n \in Nodes : res.hasData[n]
           /\ res.bt.totalMessages = bt.totalMessages + bt.numNodes - 1
    /\ ret.op = "BroadcastSimple" /\ arg = <<0>> =>
           /\ ret.ok
           /\ \A n \in Nodes : out[n]

\* a first BroadcastSimple(0) on four nodes returned: three messages were counted,
\* one of them for an injection the busy router of node 0 had refused
C25_Witness ==
    /\ ret.op = "BroadcastSimple" /\ arg = <<0>> /\ ret.ok
    /\ bt.numNodes = 4
    /\ bt.totalMessages = 3
    /\ mn.totalPacketsInjected = 2

\* C26: BroadcastSimple always terminates, after at most depth + 5 iterations of
\* its outer loop (depth = GetTreeDepth()): either all nodes have received within
\* that many iterations or it returns the broadcast-timeout error, having run no
\* more than depth + 5 iterations.
C26_AtMostDepthPlusFive ==
    \A rootID \in Nodes :
        /\ BroadcastSimple(World, bt, rootID) # {}
        /\ \A res \in BroadcastSimple(World, bt, rootID) :
               /\ res.steps <= GetTreeDepth(bt) + TimeoutSlack
               /\ \/ res.err = "none" /\ \A n \in Nodes : res.hasData[n]
                  \/ res.err = "broadcast timeout"

\* what the loop does keep to: it ends, with success and every node marked within
\* depth + 5 iterations, or with the broadcast-timeout error at the end of
\* iteration depth + 6
BroadcastSimpleWithinDepthPlusSix ==
    \A rootID \in Nodes :
        /\ BroadcastSimple(World, bt, rootID) # {}
        /\ \A res \in BroadcastSimple(World, bt, rootID) :
               \/ /\ res.err = "none"
                  /\ \A n \in Nodes : res.hasData[n]
                  /\ res.steps <= GetTreeDepth(bt) + TimeoutSlack
               \/ /\ res.err = "broadcast timeout"
                  /\ res.steps = GetTreeDepth(bt) + TimeoutSlack + 1

\* a BroadcastSimple gave up, with a node still unmarked
BroadcastSimpleTimedOut ==
    /\ ret.op = "BroadcastSimple" /\ ret.err = "broadcast timeout"
    /\ ret.id = GetTreeDepth(bt) + TimeoutSlack + 1
    /\ \E n \in Nodes : ~out[n]
    /\ bt.numNodes >= 3

\* C27: BroadcastSimple works from any valid root: for every rootID in 0 .. N-1
\* it ends with all N nodes marked as having received the data and returns success.
C27_BroadcastSimpleFromAnyRoot ==
    \A rootID \in Nodes :
        \A res \in BroadcastSimple(World, bt, rootID) :
            /\ res.err = "none"
            /\ \A n \in Nodes : res.hasData[n]

\* the children of a node, as a set
ChildSet(b, nodeID) ==
    {GetChildren(b, nodeID)[k] : k \in DOMAIN GetChildren(b, nodeID)}

\* C28: in the broadcast tree of N nodes with branching factor 2, GetParent(0) = -1;
\* every child c in GetChildren(i) has c < N and GetParent(c) = i; and every node
\* 1 .. N-1 is in the children list of exactly one node, once.
C28_TreeSpansAllNodes ==
    /\ bt.branchingFactor = 2
    /\ GetParent(bt, 0) = -1
    /\ \A i \in Nodes : \A c \in ChildSet(bt, i) :
           c < bt.numNodes /\ GetParent(bt, c) = i
    /\ \A n \in Nodes \ {0} :
           /\ Cardinality({i \in Nodes : n \in ChildSet(bt, i)}) = 1
           /\ \A i \in Nodes :
                  Cardinality({k \in DOMAIN GetChildren(bt, i) : GetChildren(bt, i)[k] = n}) <= 1

\* a tree with a node of two children, a node of one child and leaves was walked
\* by a broadcast
C28_Witness ==
    /\ bt.numNodes = 4
    /\ GetChildren(bt, 0) = <<1, 2>> /\ GetChildren(bt, 1) = <<3>> /\ GetChildren(bt, 2) = <<>>
    /\ ret.op = "BroadcastSimple" /\ ret.ok

RingNodes == 0 .. ring.numNodes - 1

\* C29: on a ring of N nodes, for every node i in 0 .. N-1, GetNextNode(i) is
\* (i+1) mod N, GetPrevNode(i) is (i-1+N) mod N, and the two undo each other:
\* GetPrevNode(GetNextNode(i)) = i = GetNextNode(GetPrevNode(i)).
C29_RingNextPrevInverse ==
    /\ \A i \in RingNodes :
           /\ GetNextNode(ring, i) = (i + 1) % ring.numNodes
           /\ GetPrevNode(ring, i) = (i - 1 + ring.numNodes) % ring.numNodes
           /\ GetNextNode(ring, i) \in RingNodes /\ GetPrevNode(ring, i) \in RingNodes
           /\ GetPrevNode(ring, GetNextNode(ring, i)) = i
           /\ GetNextNode(ring, GetPrevNode(ring, i)) = i
    /\ ret.op = "GetNextNode" => out = IF arg[1] = ring.numNodes - 1 THEN 0 ELSE arg[1] + 1
    /\ ret.op = "GetPrevNode" => out = IF arg[1] = 0 THEN ring.numNodes - 1 ELSE arg[1] - 1

\* TestRingTopologyInit: on the ring of 32 nodes the predecessor of node 0 was
\* asked for, and is node 31
C29_Witness ==
    /\ ring.numNodes = 32
    /\ ret.op = "GetPrevNode" /\ arg = <<0>> /\ out = 31

\* the reductions, each defined without ApplyReduce
RECURSIVE SumOf(_)
SumOf(values) == IF values = <<>> THEN 0 ELSE Head(values) + SumOf(Tail(values))

RECURSIVE ProdOf(_)
ProdOf(values) == IF values = <<>> THEN 1 ELSE Head(values) * ProdOf(Tail(values))

ValuesOf(values) == {values[i] : i \in DOMAIN values}

Reduction(values, op) ==
    CASE op = "SUM" -> SumOf(values)
      [] op = "PROD" -> ProdOf(values)
      [] op = "MAX" -> CHOOSE m \in ValuesOf(values) : \A v \in ValuesOf(values) : m >= v
      [] op = "MIN" -> CHOOSE m \in ValuesOf(values) : \A v \in ValuesOf(values) : m <= v

\* the orders the nodes of a ring of n nodes are folded in: every order on a
\* ring of at most MaxRing + 1 nodes; on a larger ring the orders round the ring,
\* from any node on and in either direction
FoldOrders(n) ==
    IF n <= MaxRing + 1
    THEN RangeOrders(1 .. n)
    ELSE {[i \in 1 .. n |-> ((k + i - 1) % n) + 1] : k \in 0 .. n - 1}
             \cup {[i \in 1 .. n |-> ((k + n - i) % n) + 1] : k \in 0 .. n - 1}

\* C30: RingAllReduceSimple(values, op) over N nodes returns the fold of op over
\* values[0 .. N-1] for op in SUM, MAX, MIN, PROD ({0, 10, ..., 70}: SUM 280, MAX 70,
\* MIN 0), and the result does not depend on the order the values are folded in.
C30_AllReduceIsTheFold ==
    ret.op = "RingAllReduceSimple" =>
        LET values == arg[1]
            op == arg[2]
        IN  /\ out = Reduction(values, op)
            /\ \A order \in FoldOrders(Len(values)) :
                   RingAllReduceSimple(ring, [i \in DOMAIN values |-> values[order[i]]], op) = out
            /\ values = <<0, 10, 20, 30, 40, 50, 60, 70>> =>
                   out = CASE op = "SUM" -> 280
                           [] op = "MAX" -> 70
                           [] op = "MIN" -> 0
            /\ values = <<10, 20, 30, 40>> /\ op = "SUM" => out = 100

\* the ring of three nodes reduced three different values, the smallest of them
\* in the middle, with MIN
C30_Witness ==
    /\ ret.op = "RingAllReduceSimple"
    /\ arg = <<(<<2, -1, 3>>), "MIN">>
    /\ out = -1


\* C31: ReduceScatterSimple(chunks, op) over N nodes returns a vector of length N
\* whose entry i is the reduction by op of column i of the chunks (chunks[0][i],
\* ..., chunks[N-1][i]), for op in SUM, MAX, MIN; the chunks {10,20,30,40},
\* {1,2,3,4}, {5,6,7,8}, {9,10,11,12} reduce with SUM to {25, 38, 51, 64}.
C31_ReduceScatterIsColumnWise ==
    ret.op = "ReduceScatterSimple" /\ arg[2] \in {"SUM", "MAX", "MIN"} =>
        LET chunks == arg[1]
            op == arg[2]
        IN  /\ DOMAIN out = 1 .. rs.numNodes
            /\ \A i \in 1 .. rs.numNodes :
                   out[i] = Reduction([j \in 1 .. rs.numNodes |-> chunks[j][i]], op)
            /\ (chunks = << <<10, 20, 30, 40>>, <<1, 2, 3, 4>>, <<5, 6, 7, 8>>,
                            <<9, 10, 11, 12>> >> /\ op = "SUM")
                   => out = <<25, 38, 51, 64>>

\* the chunks of the test were reduced with SUM
C31_Witness ==
    /\ ret.op = "ReduceScatterSimple"
    /\ arg = << << <<10, 20, 30, 40>>, <<1, 2, 3, 4>>, <<5, 6, 7, 8>>, <<9, 10, 11, 12>> >>,
                "SUM" >>
    /\ out = <<25, 38, 51, 64>>


\* world w after the caller wrote byte into the array of slice: slice[0] = byte
Poke(w, slice, byte) == [w EXCEPT !.heap[slice][1] = byte]

\* the calls that do not write to key, tried in world w, leave what Read of key
\* hands back as it is: Write and Clear of another key, Read, Transfer
OthersLeave(w, key) ==
    /\ \A other \in ValidCoordinates \ {key} : \A data \in CallerSlices :
           /\ ReadBytes(InterconnectWrite(w, other[1], other[2], other[3], data).w, key)
                  = ReadBytes(w, key)
           /\ ReadBytes(InterconnectClear(w, other[1], other[2], other[3]), key)
                  = ReadBytes(w, key)
    /\ \A any \in AllCoordinates : \A data \in CallerSlices :
           /\ ReadBytes(InterconnectRead(w, any[1], any[2], any[3]).w, key) = ReadBytes(w, key)
           /\ \A dst \in ValidCoordinates :
                  ReadBytes(InterconnectTransfer(w, TransferRequest(any, dst, data)).w, key)
                      = ReadBytes(w, key)

\* C32: after successful Write calls to a valid key k, Read(k) returns the bytes of
\* the payload of the last Write to k; what is stored and what is returned are
\* copies, so a later change of the writer's payload or of a slice Read returned
\* earlier does not change what a later Read(k) returns.
C32_ReadReturnsLastWrite ==
    \A key \in ValidCoordinates : \A data \in CallerSlices :
        LET payload == heap[data]
            first == InterconnectWrite(CoarseWorld, key[1], key[2], key[3], data)
            stored == [err |-> "none", bytes |-> payload]
        IN  /\ first.err = "none"
            /\ ReadBytes(first.w, key) = stored
            /\ OthersLeave(first.w, key)
            /\ \A byte \in ByteValues :
                   LET changed == Poke(first.w, data, byte)
                       second == InterconnectWrite(changed, key[1], key[2], key[3], data)
                       read == InterconnectRead(first.w, key[1], key[2], key[3])
                   IN  /\ ReadBytes(changed, key) = stored
                       /\ ReadBytes(second.w, key) = [err |-> "none", bytes |-> changed.heap[data]]
                       /\ read.data # data
                       /\ ReadBytes(Poke(read.w, read.data, byte), key) = stored

\* a key was written twice, the second time from a changed array, the caller changed
\* its array again, and Read handed back what the second Write was given
C32_Witness ==
    /\ ret.op = "Read"
    /\ ret.err = "none"
    /\ ic.totalTransfers = 2
    /\ DOMAIN ic.sharedBuffer = {<<0, 0, 0>>}
    /\ heap[out] = <<2, 1>>
    /\ heap[1] = <<1, 1>>

\* the heads of the queues of i whose destination is key
HeadsTo(i, key) ==
    {c \in DOMAIN i.transferQueues :
        /\ Len(i.transferQueues[c]) > 0
        /\ LET req == Head(i.transferQueues[c])
           IN  makeKey(req.DstChannelID, req.DstRankID, req.DstDpuID) = key}

\* the worlds n Cycle calls may leave, from the worlds ws on
RECURSIVE CoarseCycleTimes(_, _)
CoarseCycleTimes(ws, n) ==
    IF n = 0 THEN ws ELSE CoarseCycleTimes(UNION {InterconnectCycle(w) : w \in ws}, n - 1)

\* the length of the longest queue of i
LongestQueue(i) ==
    CHOOSE k \in 0 .. Queued(i) :
        /\ \A c \in DOMAIN i.transferQueues : Len(i.transferQueues[c]) <= k
        /\ k > 0 => \E c \in DOMAIN i.transferQueues : Len(i.transferQueues[c]) = k

\* C33: the queued transfers of one source channel retire in the order Transfer
\* queued them, exactly one a channel in every Cycle call while the queue is not
\* empty, so k transfers queued on a channel need exactly k Cycle calls before
\* IsEmpty() is true; and Read of the destination key of a retired transfer hands
\* back the data of that transfer until a later write to that key.
C33_QueuesRetireInOrder ==
    /\ \A n \in 0 .. LongestQueue(ic) : \A w \in CoarseCycleTimes({CoarseWorld}, n) :
           InterconnectIsEmpty(w.ic) <=> n = LongestQueue(ic)
    /\ \A w \in InterconnectCycle(CoarseWorld) : \A c \in DOMAIN ic.transferQueues :
           LET queue == ic.transferQueues[c]
               req == Head(queue)
               dstKey == makeKey(req.DstChannelID, req.DstRankID, req.DstDpuID)
           IN  IF Len(queue) = 0
               THEN w.ic.transferQueues[c] = <<>>
               ELSE /\ w.ic.transferQueues[c] = Tail(queue)
                    /\ ReadBytes(w, dstKey).err = "none"
                    /\ ReadBytes(w, dstKey).bytes
                           \in {heap[Head(ic.transferQueues[h]).Data] : h \in HeadsTo(ic, dstKey)}
                    /\ OthersLeave(w, dstKey)
                    /\ \A slice \in CallerSlices : \A byte \in ByteValues :
                           ReadBytes(Poke(w, slice, byte), dstKey) = ReadBytes(w, dstKey)

\* C34: Write, Read and Transfer turn down every (channel, rank, DPU) triple outside
\* the configured ranges with an error and change nothing (shared buffer, queues,
\* totalTransfers, totalBytesTransferred); Read of a valid key that holds no data,
\* never written or cleared, returns the no-data error.
C34_InvalidCoordinatesRejected ==
    /\ \A key \in AllCoordinates \ ValidCoordinates : \A data \in CallerSlices :
           LET written == InterconnectWrite(CoarseWorld, key[1], key[2], key[3], data)
               read == InterconnectRead(CoarseWorld, key[1], key[2], key[3])
           IN  /\ written.err \in {"invalid channel ID", "invalid rank ID", "invalid DPU ID"}
               /\ written.w = CoarseWorld
               /\ read.err \in {"invalid channel ID", "invalid rank ID", "invalid DPU ID"}
               /\ read.data = NilSlice
               /\ read.w = CoarseWorld
               /\ \A other \in Coordinates :
                      LET from == InterconnectTransfer(CoarseWorld,
                                                       TransferRequest(key, other, data))
                          to == InterconnectTransfer(CoarseWorld,
                                                     TransferRequest(other, key, data))
                      IN  /\ from.err = "invalid source"
                          /\ from.w = CoarseWorld
                          /\ to.err \in {"invalid source", "invalid destination"}
                          /\ to.w = CoarseWorld
    /\ \A key \in ValidCoordinates :
           LET read == InterconnectRead(CoarseWorld, key[1], key[2], key[3])
               cleared == InterconnectClear(CoarseWorld, key[1], key[2], key[3])
           IN  /\ key \notin DOMAIN ic.sharedBuffer =>
                      read.err = "no data" /\ read.data = NilSlice /\ read.w = CoarseWorld
               /\ ReadBytes(cleared, key).err = "no data"

\* a Write with a rank out of range was turned down by an Interconnect that holds
\* data and a queued request
C34_Witness ==
    /\ ret.op = "Write"
    /\ ret.err = "invalid rank ID"
    /\ DOMAIN ic.sharedBuffer # {}
    /\ Queued(ic) > 0
    /\ ic.totalTransfers > 0


\* every goroutine has returned
AllDone == \A t \in DOMAIN threads : threads[t].pc = "done"

\* the sum of the lengths of the payloads of the writers
RECURSIVE PayloadBytes(_)
PayloadBytes(ts) ==
    IF ts = {} THEN 0
    ELSE LET t == CHOOSE x \in ts : TRUE
         IN  Len(WriterPayloads[t]) + PayloadBytes(ts \ {t})

\* C35: when several contexts call Interconnect.Write concurrently, each on a key
\* of its own, then in every interleaving, once all of them have returned, Read of
\* each key returns that key's writer's payload and totalTransfers has grown by the
\* number of writers: no write is lost or mixed with another.
C35_ConcurrentWritesAllLand ==
    AllDone =>
        /\ \A t \in Writers :
               /\ threads[t].err = "none"
               /\ ReadBytes([ic |-> ic, heap |-> heap], WriterKey(t))
                      = [err |-> "none", bytes |-> WriterPayloads[t]]
        /\ ic.totalTransfers = arg[1] + MaxWriters
        /\ ic.totalBytesTransferred = arg[2] + PayloadBytes(Writers)

\* all writers have returned on an Interconnect that held the last writer's bytes
\* under the first writer's key, and the reader saw the first writer's bytes there
C35_Witness ==
    /\ AllDone
    /\ arg[1] = 1
    /\ threads[Reader].key = WriterKey(1)
    /\ threads[Reader].bytes = WriterPayloads[1]
    /\ ic.totalTransfers = 1 + MaxWriters


\* the next statement of context t reads or writes the state of the switch
Accessing(t) ==
    \/ threads[t].op \in LockingMethods /\ threads[t].pc \in {"body", "busy", "free"}
    \/ threads[t].op = "Cycle" /\ threads[t].pc \in {"call", "store"}

\* C36: every read or write of the state of a CrossbarSwitch made after Init
\* happens while the context that makes it holds the mutex of the switch, so no two
\* of Connect, Disconnect, DisconnectAll, IsConnected, GetConnection, Cycle and
\* GetStatistics running in different contexts access that state at the same time.
C36_AccessUnderMutex ==
    \A t \in DOMAIN threads : Accessing(t) => mu.writer = t

\* the contexts that asked for output j
Askers(j) == {t \in DOMAIN threads : threads[t].outputID = j}

\* C40: when two or more contexts call Connect concurrently for the same unclaimed
\* output j from different inputs, then in every interleaving exactly one call
\* returns true, every other call returns false and increments blockedAttempts,
\* and afterwards output j is connected to the winning input only.
C40_OneConnectWins ==
    \A j \in 0 .. 1 :
        (/\ \A t \in DOMAIN threads : threads[t].op = "Connect" /\ threads[t].outputID = j
         /\ arg[1].reverseConnections[j] = NotConnected
         /\ AllDone)
        => \E winner \in DOMAIN threads :
              /\ threads[winner].result = <<TRUE>>
              /\ \A t \in DOMAIN threads \ {winner} : threads[t].result = <<FALSE>>
              /\ cs.blockedAttempts = arg[1].blockedAttempts + Cardinality(DOMAIN threads) - 1
              /\ cs.totalSwitches = arg[1].totalSwitches + 1
              /\ cs.reverseConnections[j] = threads[winner].inputID
              /\ \A i \in DOMAIN cs.connections :
                     cs.connections[i] = j <=> i = threads[winner].inputID

\* all contexts asked for output 0 on a switch where input 0 held output 1, and
\* the last context won: input 0 was refused and keeps output 1
C40_Witness ==
    /\ AllDone
    /\ \A t \in DOMAIN threads : threads[t].op = "Connect" /\ threads[t].outputID = 0
    /\ arg[1].connections[0] = 1
    /\ threads[MaxContexts].result = <<TRUE>>
    /\ threads[1].result = <<FALSE>>
    /\ cs.connections[0] = 1


\* the crossbar of switch sw holds the connection of its active transfer t
HoldsConnection(sw, t) ==
    LET transfer == sw.activeTransfers[t]
    IN  /\ sw.crossbar.connections[transfer.SrcChipID] = transfer.DstChipID
        /\ sw.crossbar.reverseConnections[transfer.DstChipID] = transfer.SrcChipID

\* C37: for every active transfer t of an InterChipSwitch (started and not yet
\* completed) the crossbar holds the connection t.src -> t.dst; so the number of
\* active transfers equals the number of crossbar connections, and completing one
\* transfer never removes the connection used by another active transfer.
C37_ActiveTransfersHoldConnections ==
    /\ \A t \in DOMAIN ics.activeTransfers : HoldsConnection(ics, t)
    /\ Cardinality(DOMAIN ics.activeTransfers) = Cardinality(Connected(ics.crossbar))
    /\ \A t \in DOMAIN ics.activeTransfers :
       \A u \in DOMAIN ics.activeTransfers \ {t} :
           HoldsConnection(ics, u) => HoldsConnection(CompleteTransfer(ics, t).ics, u)


\* the number of nodes marked in hasData
Marked(hasData) == Cardinality({n \in DOMAIN hasData : hasData[n]})

\* C38: every message BroadcastSimple counts is a packet the mesh accepted and
\* delivers: when BroadcastSimple(0, data) returns success on an idle mesh, the
\* mesh's packets_injected and packets_delivered have each grown by what
\* totalMessages grew by, N - 1, and a node is marked as holding the data only if
\* InjectPacket accepted the packet addressed to it.
C38_CountedMessagesAreDelivered ==
    IdleMesh =>
        \A res \in BroadcastSimple(World, bt, 0) :
            res.err = "none" =>
                LET counted == res.bt.totalMessages - bt.totalMessages
                    injected == res.w.mn.totalPacketsInjected - mn.totalPacketsInjected
                    delivered == res.w.mn.totalPacketsDelivered - mn.totalPacketsDelivered
                IN  /\ counted = bt.numNodes - 1
                    /\ injected = counted
                    /\ delivered = counted
                    /\ Marked(res.hasData) - 1 <= injected


\* the Manhattan distance from position pos to the destination of packet
DistanceTo(pos, packet) == Abs(packet.DstChannelID - pos[1]) + Abs(packet.DstDpuID - pos[2])

\* C39: routing is minimal and stays on the mesh: under XY, YX and WEST_FIRST, for
\* every packet whose destination lies inside the mesh, each hop ComputeNextHop
\* chooses other than LOCAL leads to an existing neighbour router and brings the
\* packet exactly 1 closer to its destination; under XY no EAST or WEST hop follows
\* a NORTH or SOUTH hop, and under WEST_FIRST no WEST hop follows any other hop.
C39_RoutingMinimalOnMesh ==
    LET d == ComputeNextHop(router, arg[3])
        pos == <<router.PositionX, router.PositionY>>
    IN  /\ d # LOCAL_DIR =>
               /\ HasNeighbour(arg[1], arg[2], pos, d)
               /\ DistanceTo(NeighbourOf(pos, d), arg[3]) = DistanceTo(pos, arg[3]) - 1
        /\ router.routingAlgorithm = XY_ROUTING =>
               \A i, j \in 1 .. Len(out) :
                   i < j /\ out[i] \in {NORTH, SOUTH} => out[j] \notin {EAST, WEST}
        /\ router.routingAlgorithm = WEST_FIRST =>
               \A i, j \in 1 .. Len(out) :
                   i < j /\ out[i] # WEST => out[j] # WEST

\* a WEST_FIRST packet that went west, then north, and was delivered
C39_Witness ==
    /\ router.routingAlgorithm = WEST_FIRST
    /\ out = <<WEST, NORTH, LOCAL_DIR>>
    /\ DistanceTo(<<router.PositionX, router.PositionY>>, arg[3]) = 0

====
